---- MODULE Spec2Model ----
(***************************************************************************)
(* Model of the MESSAGEix-Transport demand and reporting code:             *)
(*   model/transport/demand.py   dummy, add_structure, add_exogenous_data, *)
(*                               prepare_reporter                          *)
(*   model/transport/report.py   add_iamc_store_write,                     *)
(*                               latest_reporting_from_file/_platform,     *)
(*                               multi                                     *)
(*   model/transport/files.py    ExogenousDataFile, FILES                  *)
(*                                                                         *)
(* A Computer (genno) is a record: graph (key -> task), index (keys added  *)
(* with index=True), config (sections of graph["config"]) and modules.     *)
(* A key is a record of name, set of dimensions and sequence of tags, so   *)
(* that keys with the same dimensions in another order are the same key.   *)
(***************************************************************************)
EXTENDS Integers, Sequences, FiniteSets, TLC

VARIABLES
    rep,        \* demand: the Computer/Reporter handed to prepare_reporter
    last,       \* demand: the last call made on rep, its arguments and outcome
    calls,      \* demand: number of calls made on rep so far
    context,    \* demand: the Context (regions, years) of the session
    fs,         \* report: the directories under the report directory
    platform,   \* report: the rows of platform.scenario_list()
    out,        \* report: the last call of a report function and its result
    dargs,      \* dummy: the arguments of demand.dummy
    dres,       \* dummy: what demand.dummy returned for dargs
    FILES,      \* files: the list FILES
    made,       \* files: every ExogenousDataFile constructed, in order
    given,      \* files: the arguments of each construction, in order
    uenv,       \* utils: the configuration and data files
    uctx,       \* utils: the Context
    ulog,       \* utils: load_config calls and pops of "params" so far
    ucache,     \* utils: the lru_cache of consumer_groups
    ulast,      \* utils: the last call, its arguments and outcome
    ufirst,     \* utils: the Context after the first read_config that returned
    ucalls,     \* utils: number of calls so far
    mconfig,    \* material: context["material"], the configuration
    mspec,      \* material: what get_spec returned for mconfig
    cb          \* callback: position in report.callback and the steps applied

demandVars == <<rep, last, calls, context>>

reportVars == <<fs, platform, out>>

dummyVars == <<dargs, dres>>

filesVars == <<FILES, made, given>>

utilsVars == <<uenv, uctx, ulog, ucache, ulast, ufirst, ucalls>>

materialVars == <<mconfig, mspec, cb>>

vars == <<rep, last, calls, context, fs, platform, out, dargs, dres, FILES, made,
          given, uenv, uctx, ulog, ucache, ulast, ufirst, ucalls, mconfig, mspec, cb>>

\* Number of calls made on one Reporter.
MaxCalls == 2

----------------------------------------------------------------------------
(* Keys *)

K(name, dims, tag) == [name |-> name, dims |-> dims, tag |-> tag]

add_tag(k, t) == [k EXCEPT !.tag = Append(@, t)]

drop(k, ds) == [k EXCEPT !.dims = @ \ ds]

\* Key.product: the name and tag given, the union of the dimensions.
KeyProduct(name, bases, tag) ==
    K(name, UNION {bases[i].dims : i \in DOMAIN bases}, tag)

\* Key.iter_sums: one key for every proper subset of the dimensions.
PartialSums(k) == {[k EXCEPT !.dims = d] : d \in (SUBSET k.dims) \ {k.dims}}

NoLit == <<>>

Task(op, args, lit) == [op |-> op, args |-> args, lit |-> lit]

Range(s) == {s[i] : i \in DOMAIN s}

----------------------------------------------------------------------------
(* Computer *)

\* A new Computer: the graph holds only "config".
ConfigKey == K("config", {}, <<>>)

NewComputer ==
    [graph |-> [k \in {ConfigKey} |-> Task("config", <<>>, NoLit)],
     index |-> {}, config |-> {}, modules |-> {}]

Put(g, key, task) ==
    [k \in DOMAIN g \cup {key} |-> IF k = key THEN task ELSE g[k]]

\* Computer.add(key, ...): adds or replaces the task at key.
Add(c, key, task) == [c EXCEPT !.graph = Put(@, key, task)]

\* Computer.add(key, ..., sums=True, index=True): also every partial sum of
\* key, and key replaces the index entry of its name and tag.
AddSumsIndex(c, key, task) ==
    LET sums == PartialSums(key)
        g1 == Put(c.graph, key, task)
        g2 == [k \in DOMAIN g1 \cup sums |->
                 IF k \in sums THEN Task("sum", <<key>>, NoLit) ELSE g1[k]]
    IN [c EXCEPT !.graph = g2,
                 !.index = {i \in @ : ~(i.name = key.name /\ i.tag = key.tag)}
                           \cup {key}]

HasFullKey(c, name) == \E k \in c.index : k.name = name /\ k.tag = <<>>

full_key(c, name) == CHOOSE k \in c.index : k.name = name /\ k.tag = <<>>

----------------------------------------------------------------------------
(* demand.add_structure *)

\* ScenarioInfo(): nothing in any set.
EmptyInfo == [id |-> "new", years |-> FALSE, node |-> FALSE]

\* The (key, value) pairs of add_structure, in the order of the loop. The
\* years come from the codes of context.years when info.set["years"] is
\* empty, the nodes from the codes of context.regions when info.set["node"]
\* is empty.
StructureEntries(ctx, info) ==
    LET nodeSrc == IF info.node THEN <<"info", info.id, "node">>
                   ELSE <<"region codes", ctx.regions>>
        yearSrc == IF info.years THEN <<"info", info.id, "year">>
                   ELSE <<"year codes", ctx.years>>
    IN << <<K("c", {"transport"}, <<>>),
            Task("quote", <<>>, <<"info", info.id, "commodity">>)>>,
          <<K("cg", {}, <<>>),
            Task("quote", <<>>, <<"info", info.id, "consumer_group">>)>>,
          <<K("n", {}, <<>>), Task("quote", <<>>, <<"str">> \o nodeSrc)>>,
          <<K("nodes", {}, <<>>), Task("quote", <<>>, nodeSrc)>>,
          <<K("t", {"transport modes"}, <<>>),
            Task("quote", <<>>, <<"context", "demand modes">>)>>,
          <<K("y", {}, <<>>), Task("quote", <<>>, yearSrc)>>,
          <<K("cat_year", {}, <<>>),
            Task("data", <<>>, <<"firstmodelyear">> \o yearSrc)>> >>

StructureKeys ==
    {StructureEntries([regions |-> "R11", years |-> "A"], EmptyInfo)[i][1] :
        i \in 1..7}

\* Mutant of AddIfAbsent: strict=True dropped, the key is replaced.
AddIfAbsent_Overwrite(c, key, task) == Add(c, key, task)

\* c.add(key, value, strict=True) with KeyExistsError caught: add the key only
\* when it is not in the graph.
AddIfAbsent(c, key, task) ==
    IF key \in DOMAIN c.graph THEN c ELSE Add(c, key, task)

RECURSIVE AddStructureFrom(_, _, _)
AddStructureFrom(c, entries, i) ==
    IF i > Len(entries) THEN c
    ELSE AddStructureFrom(AddIfAbsent(c, entries[i][1], entries[i][2]),
                          entries, i + 1)

add_structure(c, ctx, info) ==
    AddStructureFrom(c, StructureEntries(ctx, info), 1)

----------------------------------------------------------------------------
(* demand.add_exogenous_data *)

SupportedRegions == {"R11", "R12", "R14"}

MERtoPPP == K("MERtoPPP", {"n", "y"}, <<>>)
GDP == K("GDP", {"n", "y"}, <<>>)
PRICE_COMMODITY == K("PRICE_COMMODITY", {"n", "c", "y"}, <<>>)

\* Mutant of AddRegionKey: only R11 is a pass-through.
AddRegionKey_R12Adapted(c, regions, k3, k2) ==
    IF regions = "R11" THEN Add(c, k3, Task("alias", <<k2>>, NoLit))
    ELSE IF regions \in {"R12", "R14"}
         THEN Add(c, k3, Task("adapt_R11_R14", <<k2>>, NoLit))
         ELSE c

\* The region-tagged key: a pass-through for R11 and R12, adapt_R11_R14 for
\* R14, nothing for any other value.
AddRegionKey(c, regions, k3, k2) ==
    IF regions \in {"R11", "R12"} THEN Add(c, k3, Task("alias", <<k2>>, NoLit))
    ELSE IF regions = "R14"
         THEN Add(c, k3, Task("adapt_R11_R14", <<k2>>, NoLit))
         ELSE c

add_exogenous_data(c, ctx, info) ==
    IF ctx.regions \notin SupportedRegions
    THEN [c |-> c, err |-> "NotImplementedError"]
    ELSE
      LET k1 == K(MERtoPPP.name, {}, <<"raw">>)
          k2 == add_tag(MERtoPPP, "rename")
          k3 == add_tag(MERtoPPP, ctx.regions)
          c1 == Add(c, k1, Task("load_file", <<>>, <<"mer-to-ppp.csv">>))
          c2 == Add(c1, k2, Task("rename", <<k1>>, <<"RENAME_DIMS">>))
          c3 == AddRegionKey(c2, ctx.regions, k3, k2)
          c4 == AddSumsIndex(c3, MERtoPPP,
                             Task("interpolate", <<k3>>, <<"info", info.id, "Y">>))
          c5 == AddSumsIndex(c4, GDP,
                             Task("gdp", <<K("y", {}, <<>>), ConfigKey>>, NoLit))
          c6 == AddSumsIndex(c5, PRICE_COMMODITY,
                             Task("dummy_prices", <<GDP>>, NoLit))
      IN [c |-> c6, err |-> "none"]

----------------------------------------------------------------------------
(* demand.prepare_reporter *)

\* Keys for new quantities (demand.py lines 232-243).
pop_at == K("population", {"n", "y", "area_type"}, <<>>)
pop == drop(pop_at, {"area_type"})
cg == K("cg share", {"n", "y", "cg"}, <<>>)
gdp_ppp == K("GDP", {"n", "y"}, <<"PPP">>)
gdp_ppp_cap == add_tag(gdp_ppp, "capita")
pdt_nyt == K("transport pdt", {"n", "y", "t"}, <<>>)
pdt_cap == add_tag(drop(pdt_nyt, {"t"}), "capita")
pdt_ny == add_tag(drop(pdt_nyt, {"t"}), "total")
cost == K("cost", {"n", "y", "c", "t"}, <<>>)
sw == K("share weight", {"n", "t", "y"}, <<>>)

\* Keys written as strings in the queue.
speed_t == K("speed", {"t"}, <<>>)
whour == K("whour", {}, <<>>)
lambda == K("lambda", {}, <<>>)
n_key == K("n", {}, <<>>)
nodes_key == K("nodes", {}, <<>>)
y_key == K("y", {}, <<>>)
cat_year == K("cat_year", {}, <<>>)
n_ex_world == K("n", {"ex world"}, <<>>)
n_ex_world_code == K("n", {"ex world+code"}, <<>>)
nodes_ex_world == K("nodes", {"ex world"}, <<>>)
y_model == K("y", {"model"}, <<>>)
t_transport == K("t", {"transport"}, <<>>)
t_transport_modes == K("t", {"transport modes"}, <<>>)
c_transport == K("c", {"transport"}, <<>>)
base_shares == K("base shares", {"n", "t", "y"}, <<>>)
votm == K("votm", {"n", "y"}, <<>>)
shares == K("shares", {"n", "t", "y"}, <<>>)
pdt_nyt_capita == K("transport pdt", {"n", "y", "t"}, <<"capita">>)
ldv_pdt_total == K("transport ldv pdt", {"n", "y"}, <<"total">>)
ldv_pdt == K("transport ldv pdt", {}, <<>>)
ldv_pdt_cg == K("transport ldv pdt", {"n", "y", "cg"}, <<>>)
demand_ixmp == K("demand", {"ixmp"}, <<>>)
demand_dummy_ixmp == K("demand dummy", {"ixmp"}, <<>>)

Q(kind, key, op, args) == [kind |-> kind, key |-> key, op |-> op, args |-> args]

\* The queue of prepare_reporter, with gdp, mer_to_ppp and price_full the
\* keys found by full_key.
Queue(gdp, mer_to_ppp, price_full) ==
    LET price_sel == add_tag(price_full, "transport")
        price == add_tag(price_sel, "smooth")
    IN <<
      Q("add", speed_t, "speed", <<ConfigKey>>),
      Q("add", whour, "whour", <<ConfigKey>>),
      Q("add", lambda, "_lambda", <<ConfigKey>>),
      Q("add", n_ex_world, "nodes_ex_world", <<n_key>>),
      Q("add", n_ex_world_code, "nodes_ex_world", <<nodes_key>>),
      Q("add", y_model, "model_periods", <<y_key, cat_year>>),
      Q("add", base_shares, "base_shares",
        <<n_ex_world, t_transport_modes, y_model, ConfigKey>>),
      Q("add", pop, "population", <<y_key, ConfigKey>>),
      Q("add", pop_at, "urban_rural_shares", <<y_model, ConfigKey>>),
      Q("add", cg, "cg_shares", <<pop_at>>),
      Q("product", gdp_ppp, "product", <<gdp, mer_to_ppp>>),
      Q("add", gdp_ppp_cap, "ratio", <<gdp_ppp, pop>>),
      Q("add", pdt_cap, "pdt_per_capita", <<gdp_ppp_cap, ConfigKey>>),
      Q("product", pdt_ny, "product", <<pdt_cap, pop>>),
      Q("add", votm, "votm", <<gdp_ppp_cap>>),
      Q("add", price_sel, "select", <<price_full>>),
      Q("add", price, "smooth", <<price_sel>>),
      Q("add", cost, "cost",
        <<price, gdp_ppp_cap, whour, speed_t, votm, y_model>>),
      Q("add", sw, "share_weight",
        <<base_shares, gdp_ppp_cap, cost, lambda, n_ex_world, y_model,
          t_transport, cat_year, ConfigKey>>),
      Q("add", shares, "logit", <<cost, sw, lambda, y_model>>),
      Q("product", pdt_nyt, "product", <<pdt_ny, shares>>),
      Q("add", pdt_nyt_capita, "ratio", <<pdt_nyt, pop>>),
      Q("add", ldv_pdt_total, "select", <<pdt_nyt>>),
      Q("product", ldv_pdt, "product", <<ldv_pdt_total, cg>>),
      Q("add", demand_ixmp, "demand_ixmp", <<pdt_nyt, ldv_pdt_cg>>),
      Q("add", demand_dummy_ixmp, "dummy",
        <<c_transport, nodes_ex_world, y_model, ConfigKey>>)
    >>

\* Computer.add("product", key, *quantities): the quantities must be in the
\* graph; the key takes the union of their dimensions when that covers its own.
ProductKey(key, args) ==
    LET candidate == KeyProduct(key.name, args, key.tag)
    IN IF key.dims \subseteq candidate.dims THEN candidate ELSE key

\* One entry of the queue: [c, err].
AddEntry(c, e) ==
    IF e.kind = "product"
    THEN IF \E i \in DOMAIN e.args : e.args[i] \notin DOMAIN c.graph
         THEN [c |-> c, err |-> "MissingKeyError"]
         ELSE [c |-> Add(c, ProductKey(e.key, e.args),
                         Task(e.op, e.args, NoLit)),
               err |-> "none"]
    ELSE [c |-> Add(c, e.key, Task(e.op, e.args, NoLit)), err |-> "none"]

\* Computer.add_queue: the entries in order, stopping at the first failure.
RECURSIVE add_queue(_, _, _)
QueueStep(r, queue, i) ==
    IF r.err # "none" THEN r ELSE add_queue(r.c, queue, i + 1)

add_queue(c, queue, i) ==
    IF i > Len(queue) THEN [c |-> c, err |-> "none"]
    ELSE QueueStep(AddEntry(c, queue[i]), queue, i)

NoInfo == [id |-> "None", years |-> FALSE, node |-> FALSE]

\* Lines 225-380: the keys of existing quantities, then the queue.
PrepareQueue(c) ==
    IF ~(HasFullKey(c, "GDP") /\ HasFullKey(c, "MERtoPPP")
         /\ HasFullKey(c, "PRICE_COMMODITY"))
    THEN [c |-> c, err |-> "KeyError"]
    ELSE add_queue(c,
                   Queue(full_key(c, "GDP"), full_key(c, "MERtoPPP"),
                         drop(full_key(c, "PRICE_COMMODITY"), {"h", "l"})),
                   1)

\* Lines 213-223: the transport configuration goes to the Reporter.
PrepareConfig(r) ==
    IF r.err # "none" THEN r
    ELSE PrepareQueue([r.c EXCEPT !.config =
                          @ \cup {"data source", "output_path", "regions"}])

\* Lines 209-211: exogenous data, which needs info.
PrepareExogenous(c, ctx, exogenous_data, info) ==
    IF ~exogenous_data THEN [c |-> c, err |-> "none"]
    ELSE IF info = NoInfo THEN [c |-> c, err |-> "AssertionError"]
         ELSE add_exogenous_data(c, ctx, info)

\* prepare_reporter(rep, context, configure, exogenous_data, info): [c, err].
prepare_reporter(c, ctx, configure, exogenous_data, info) ==
    PrepareConfig(
        PrepareExogenous(
            add_structure(
                [c EXCEPT !.config = IF configure THEN @ \cup {"transport"}
                                     ELSE @,
                          !.modules = @ \cup {"computations"}],
                ctx, IF info = NoInfo THEN EmptyInfo ELSE info),
            ctx, exogenous_data, info))

----------------------------------------------------------------------------
(* Calls on one Reporter: demand.py *)

\* The Context is one object per session: its regions and years are set
\* before the first call.
Contexts == [regions : {"R11", "R12", "R14", "ISR"}, years : {"B"}]

\* ScenarioInfo arguments: the "add" part of a spec (nodes set, no entry
\* "years"), and one with an entry "years" and no nodes.
Infos ==
    {[id |-> "spec", years |-> FALSE, node |-> TRUE],
     [id |-> "other", years |-> TRUE, node |-> FALSE]}

\* A Reporter from a Scenario holds some of the structure keys and, with a
\* solution, the quantities GDP, MERtoPPP and PRICE_COMMODITY.
ScenarioQuantities(c) ==
    LET t == Task("scenario", <<>>, <<"scenario">>)
    IN AddSumsIndex(
         AddSumsIndex(AddSumsIndex(c, GDP, t), MERtoPPP, t),
         K("PRICE_COMMODITY", {"n", "c", "l", "y", "h"}, <<>>), t)

ScenarioStructure(c, keys) ==
    [c EXCEPT !.graph =
        [k \in DOMAIN @ \cup keys |->
            IF k \in keys THEN Task("scenario", <<>>, <<"scenario">>)
            ELSE @[k]]]

\* Reporter.from_scenario: the sets of the scenario (n, y, cat_year among
\* them) and, with a solution, its quantities.
FromScenario(solved) ==
    IF solved
    THEN ScenarioQuantities(
             ScenarioStructure(NewComputer, {n_key, y_key, cat_year}))
    ELSE ScenarioStructure(NewComputer, {n_key, y_key, cat_year})

\* The parts of the state a specification does not use stay as they are here.
ReportIdle == fs = {} /\ platform = {} /\ out = [op |-> "none"]

DummyIdle == dargs = <<>> /\ dres = [called |-> FALSE]

FilesIdle == FILES = <<>> /\ made = <<>> /\ given = <<>>

UtilsIdle ==
    /\ uenv = <<>> /\ uctx = <<>> /\ ulog = <<>> /\ ucache = <<>>
    /\ ulast = <<>> /\ ufirst = <<>> /\ ucalls = 0

MaterialIdle == mconfig = <<>> /\ mspec = <<>> /\ cb = <<>>

GetSpecIdle == mconfig = <<>> /\ mspec = <<>>

CallbackIdle == cb = <<>>

NoCall ==
    [op |-> "none", prevOp |-> "none", pre |-> NewComputer, exo |-> FALSE,
     err |-> "none", arg |-> ConfigKey, ret |-> ConfigKey]

DemandIdle ==
    /\ rep = NewComputer
    /\ last = NoCall
    /\ calls = 0
    /\ context = [regions |-> "R11", years |-> "B"]

DemandInit ==
    /\ rep \in {NewComputer, FromScenario(FALSE), FromScenario(TRUE)}
    /\ context \in Contexts
    /\ last = NoCall
    /\ calls = 0
    /\ ReportIdle /\ DummyIdle /\ FilesIdle
    /\ UtilsIdle /\ MaterialIdle

Called(op, exo, err) ==
    [op |-> op, prevOp |-> last.op, pre |-> rep, exo |-> exo, err |-> err,
     arg |-> ConfigKey, ret |-> ConfigKey]

CallAddStructure ==
    /\ calls < MaxCalls
    /\ \E info \in Infos :
          /\ rep' = add_structure(rep, context, info)
          /\ last' = Called("add_structure", FALSE, "none")
    /\ calls' = calls + 1
    /\ UNCHANGED <<context, reportVars, dummyVars, filesVars, utilsVars,
                 materialVars>>

CallAddExogenousData ==
    /\ calls < MaxCalls
    /\ \E info \in Infos :
          \E r \in {add_exogenous_data(rep, context, info)} :
             /\ rep' = r.c
             /\ last' = Called("add_exogenous_data", TRUE, r.err)
    /\ calls' = calls + 1
    /\ UNCHANGED <<context, reportVars, dummyVars, filesVars, utilsVars,
                 materialVars>>

CallPrepareReporter ==
    /\ calls < MaxCalls
    /\ \E configure \in BOOLEAN, exo \in BOOLEAN, info \in Infos \cup {NoInfo} :
          \E r \in {prepare_reporter(rep, context, configure, exo, info)} :
             /\ rep' = r.c
             /\ last' = Called("prepare_reporter", exo, r.err)
    /\ calls' = calls + 1
    /\ UNCHANGED <<context, reportVars, dummyVars, filesVars, utilsVars,
                 materialVars>>

DemandNext == CallAddStructure \/ CallAddExogenousData \/ CallPrepareReporter

SpecDemand == DemandInit /\ [][DemandNext]_vars

----------------------------------------------------------------------------
(* Dependencies in a graph *)

Inputs(g, k) == IF k \in DOMAIN g THEN Range(g[k].args) ELSE {}

\* The keys reachable from the keys in S through task inputs, S included.
RECURSIVE Reach(_, _)
Reach(g, S) ==
    LET next == S \cup UNION {Inputs(g, k) : k \in S}
    IN IF next = S THEN S ELSE Reach(g, next)

Acyclic(g, S) == \A k \in Reach(g, S) : k \notin Reach(g, Inputs(g, k))

Computable(g, k) ==
    /\ Reach(g, {k}) \subseteq DOMAIN g
    /\ Acyclic(g, {k})

\* C1 (as claimed): after prepare_reporter(rep, context, exogenous_data=True,
\* info=...) has returned on a Reporter without scenario data, 'demand:ixmp'
\* can be computed: every key a task reachable from it takes as input is in
\* the graph, and the dependencies have no cycle.
C1_DemandComputable ==
    (/\ last.op = "prepare_reporter"
     /\ last.pre = NewComputer
     /\ last.exo
     /\ last.err = "none")
    => Computable(rep.graph, demand_ixmp)

\* C7: add_structure never overwrites. After a call every structure key is in
\* the graph, every key that was in the graph before keeps its task, no other
\* key appears, index/config/modules are untouched, and a call that follows
\* another call of add_structure changes nothing at all.
C7_AddStructureNeverOverwrites ==
    last.op = "add_structure" =>
        /\ StructureKeys \subseteq DOMAIN rep.graph
        /\ DOMAIN rep.graph = DOMAIN last.pre.graph \cup StructureKeys
        /\ \A k \in DOMAIN last.pre.graph : rep.graph[k] = last.pre.graph[k]
        /\ rep.index = last.pre.index
        /\ rep.config = last.pre.config
        /\ rep.modules = last.pre.modules
        /\ (last.prevOp = "add_structure" => rep = last.pre)

\* C7 witness: a second call in a row, on a graph in which 'n' came from the
\* scenario and 'cg' was added by add_structure.
C7_Witness ==
    /\ last.op = "add_structure"
    /\ last.prevOp = "add_structure"
    /\ rep.graph[n_key].op = "scenario"
    /\ rep.graph[K("cg", {}, <<>>)].op = "quote"

----------------------------------------------------------------------------
(* report.add_iamc_store_write *)

scenario_key == K("scenario", {}, <<>>)

\* Mutant of add_iamc_store_write: the "+file" list also holds "+store".
add_iamc_store_write_FileStores(c, base_key) ==
    LET csv_path == add_tag(base_key, "csv path")
        xlsx_path == add_tag(base_key, "xlsx path")
        csv == add_tag(base_key, "csv")
        xlsx == add_tag(base_key, "xlsx")
        file == add_tag(base_key, "file")
        store == add_tag(base_key, "store")
        all == add_tag(base_key, "all")
        c1 == Add(c, csv_path, Task("make_output_path", <<ConfigKey>>,
                                    <<base_key.name, ".", "csv">>))
        c2 == Add(c1, csv, Task("write_report", <<base_key, csv_path>>, NoLit))
        c3 == Add(c2, xlsx_path, Task("make_output_path", <<ConfigKey>>,
                                      <<base_key.name, ".", "xlsx">>))
        c4 == Add(c3, xlsx, Task("write_report", <<base_key, xlsx_path>>, NoLit))
        c5 == Add(c4, file, Task("list", <<csv, xlsx, store>>, NoLit))
        c6 == Add(c5, store, Task("store_ts", <<scenario_key, base_key>>, NoLit))
    IN [c |-> Add(c6, all, Task("list", <<file, store>>, NoLit)), key |-> all]

\* add_iamc_store_write(c, base_key): [c, key]. KeySeq(base_key)[tag] is
\* base_key with the tag added; the file names are "<name>.<suffix>".
add_iamc_store_write(c, base_key) ==
    LET csv_path == add_tag(base_key, "csv path")
        xlsx_path == add_tag(base_key, "xlsx path")
        csv == add_tag(base_key, "csv")
        xlsx == add_tag(base_key, "xlsx")
        file == add_tag(base_key, "file")
        store == add_tag(base_key, "store")
        all == add_tag(base_key, "all")
        c1 == Add(c, csv_path, Task("make_output_path", <<ConfigKey>>,
                                    <<base_key.name, ".", "csv">>))
        c2 == Add(c1, csv, Task("write_report", <<base_key, csv_path>>, NoLit))
        c3 == Add(c2, xlsx_path, Task("make_output_path", <<ConfigKey>>,
                                      <<base_key.name, ".", "xlsx">>))
        c4 == Add(c3, xlsx, Task("write_report", <<base_key, xlsx_path>>, NoLit))
        c5 == Add(c4, file, Task("list", <<csv, xlsx>>, NoLit))
        c6 == Add(c5, store, Task("store_ts", <<scenario_key, base_key>>, NoLit))
    IN [c |-> Add(c6, all, Task("list", <<file, store>>, NoLit)), key |-> all]

\* Base keys in IAMC format: "foo::iamc", "transport::iamc", "bar:n-y:iamc".
BaseKeys ==
    {K("foo", {}, <<"iamc">>), K("transport", {}, <<"iamc">>),
     K("bar", {"n", "y"}, <<"iamc">>)}

\* Keys the Computer may hold before the first call: the base keys, the
\* scenario, and an older task at "foo::iamc+file".
PriorKeys == BaseKeys \cup {scenario_key, add_tag(K("foo", {}, <<"iamc">>), "file")}

IamcInit ==
    /\ \E keys \in SUBSET PriorKeys :
          rep = [NewComputer EXCEPT !.graph =
                   [k \in DOMAIN @ \cup keys |->
                       IF k \in keys THEN Task("concat", <<>>, <<"earlier">>)
                       ELSE @[k]]]
    /\ last = NoCall
    /\ calls = 0
    /\ context = [regions |-> "R11", years |-> "B"]
    /\ ReportIdle /\ DummyIdle /\ FilesIdle
    /\ UtilsIdle /\ MaterialIdle

CallAddIamcStoreWrite ==
    /\ calls < MaxCalls
    /\ \E base_key \in BaseKeys :
          \E r \in {add_iamc_store_write(rep, base_key)} :
             /\ rep' = r.c
             /\ last' = [Called("add_iamc_store_write", FALSE, "none")
                            EXCEPT !.arg = base_key, !.ret = r.key]
    /\ calls' = calls + 1
    /\ UNCHANGED <<context, reportVars, dummyVars, filesVars, utilsVars,
                 materialVars>>

IamcNext == CallAddIamcStoreWrite

SpecIamc == IamcInit /\ [][IamcNext]_vars

\* C6: add_iamc_store_write(c, base) adds base+csv, +xlsx, +file, +store and
\* +all and returns +all; +all depends on exactly +file and +store, +file on
\* exactly +csv and +xlsx; +csv writes base to a path named <name>.csv, +xlsx
\* to <name>.xlsx; +store stores base on 'scenario'; and computing +file does
\* not reach +store nor any store_ts task.
C6_IamcStoreWrite ==
    last.op = "add_iamc_store_write" =>
        LET b == last.arg
            g == rep.graph
            csv == add_tag(b, "csv")
            xlsx == add_tag(b, "xlsx")
            file == add_tag(b, "file")
            store == add_tag(b, "store")
            all == add_tag(b, "all")
        IN /\ {csv, xlsx, file, store, all} \subseteq DOMAIN g
           /\ last.ret = all
           /\ Range(g[all].args) = {file, store}
           /\ Range(g[file].args) = {csv, xlsx}
           /\ \A sfx \in {"csv", "xlsx"} :
                 LET k == add_tag(b, sfx)
                 IN /\ g[k].op = "write_report"
                    /\ Len(g[k].args) = 2
                    /\ g[k].args[1] = b
                    /\ g[k].args[2] \in DOMAIN g
                    /\ g[g[k].args[2]].op = "make_output_path"
                    /\ g[g[k].args[2]].lit = <<b.name, ".", sfx>>
           /\ g[store].op = "store_ts"
           /\ g[store].args = <<scenario_key, b>>
           /\ store \notin Reach(g, {file})
           /\ \A k \in Reach(g, {file}) \cap DOMAIN g : g[k].op # "store_ts"

\* C6 witness: called with 'foo::iamc' on a Computer that held an older task
\* at 'foo::iamc+file'; 'foo::iamc+all' is returned.
C6_Witness ==
    /\ last.op = "add_iamc_store_write"
    /\ last.arg = K("foo", {}, <<"iamc">>)
    /\ add_tag(last.arg, "file") \in DOMAIN last.pre.graph
    /\ last.ret = K("foo", {}, <<"iamc", "all">>)
    /\ last.ret \in DOMAIN rep.graph

----------------------------------------------------------------------------
(* report.py: latest_reporting_from_file, latest_reporting_from_platform,  *)
(* multi                                                                   *)

\* Greatest scenario version; the versions start at 9 so that directory
\* names of one and of two digits occur together.
MaxVersion == 10

\* Greatest number of targets handed to multi.
MaxTargets == 2

Versions == 9..MaxVersion

\* The version returned when nothing is found.
NotFound == -1

\* The default of minimum_version.
DefaultMinimumVersion == -1

\* str(n) for n >= 0, as the sequence of its decimal digits.
RECURSIVE Digits(_)
Digits(n) == IF n < 10 THEN <<n>> ELSE Append(Digits(n \div 10), n % 10)

\* int(s) for a sequence of decimal digits.
RECURSIVE ParseInt(_)
ParseInt(ds) ==
    IF ds = <<>> THEN 0
    ELSE 10 * ParseInt(SubSeq(ds, 1, Len(ds) - 1)) + ds[Len(ds)]

\* a < b for strings of digits: the order of str, character by character, a
\* proper prefix first.
StrLess(a, b) ==
    \E i \in 1..Len(b) :
        /\ \A j \in 1..(i - 1) : j <= Len(a) /\ a[j] = b[j]
        /\ (i > Len(a) \/ a[i] < b[i])

\* ScenarioInfo of a target: model/scenario, with or without a version.
Info(scenario, hasVersion, version) ==
    [scenario |-> scenario, hasVersion |-> hasVersion, version |-> version]

\* A directory "<model>_<scenario>_v<version>", with or without transport.csv.
Dir(scenario, version, csv) ==
    [scenario |-> scenario, ver |-> Digits(version), csv |-> csv]

\* base_dir.glob(info.path.replace("vNone", "v*")): the directories of the
\* scenario, of the one version when info has a version.
Glob(dirs, info) ==
    {d \in dirs : /\ d.scenario = info.scenario
                  /\ (info.hasVersion => d.ver = Digits(info.version))}

\* Paths of one parent compare as their names do.
PathLess(d, e) == StrLess(d.ver, e.ver)

\* sorted(..., reverse=True)
RECURSIVE SortedReverse(_)
SortedReverse(S) ==
    IF S = {} THEN <<>>
    ELSE LET top == CHOOSE d \in S : \A e \in S \ {d} : PathLess(e, d)
         IN <<top>> \o SortedReverse(S \ {top})

NoObject == [scenario |-> "", ver |-> <<>>]
EmptyFrame == [source |-> "", scenario |-> "", version |-> NotFound]

\* The tuple returned: object (path or Scenario), version, data; `nones`
\* names the elements that are None.
Found(scenario, ver, version, source) ==
    [obj |-> [scenario |-> scenario, ver |-> ver],
     version |-> version,
     df |-> [source |-> source, scenario |-> scenario, version |-> version],
     nones |-> {}]

\* Mutant of NothingFound: the version of "nothing found" is 0.
NothingFound_Zero ==
    [obj |-> NoObject, version |-> 0, df |-> EmptyFrame, nones |-> {"obj"}]

NothingFound ==
    [obj |-> NoObject, version |-> NotFound, df |-> EmptyFrame,
     nones |-> {"obj"}]

\* The loop over dirs: the first directory that holds transport.csv; its
\* version is int(name.split("v")[-1]).
RECURSIVE FirstWithFile(_, _)
FirstWithFile(dirs, i) ==
    IF i > Len(dirs) THEN NothingFound
    ELSE IF ~dirs[i].csv THEN FirstWithFile(dirs, i + 1)
         ELSE Found(dirs[i].scenario, dirs[i].ver, ParseInt(dirs[i].ver),
                    "file")

latest_reporting_from_file(info, base_dir) ==
    FirstWithFile(SortedReverse(Glob(base_dir, info)), 1)

\* platform.scenario_list(model, scen, default=False).sort_values(
\* ["version"], ascending=False)
RECURSIVE SortVersionsDescending(_)
SortVersionsDescending(rows) ==
    IF rows = {} THEN <<>>
    ELSE LET top == CHOOSE r \in rows :
                        \A q \in rows \ {r} : q.version < r.version
         IN <<top>> \o SortVersionsDescending(rows \ {top})

\* The loop over rows: break at a version <= minimum_version, skip a locked
\* row, return the first with a solution.
RECURSIVE FirstWithSolution(_, _, _)
FirstWithSolution(rows, i, minimum_version) ==
    IF i > Len(rows) THEN NothingFound
    ELSE IF rows[i].version <= minimum_version THEN NothingFound
    ELSE IF rows[i].is_locked
         THEN FirstWithSolution(rows, i + 1, minimum_version)
    ELSE IF rows[i].has_solution
         THEN Found(rows[i].scenario, Digits(rows[i].version),
                    rows[i].version, "platform")
    ELSE FirstWithSolution(rows, i + 1, minimum_version)

\* Mutant of latest_reporting_from_platform: the loop breaks at a version
\* < minimum_version instead of <=.
latest_reporting_from_platform_Lt(info, mp, minimum_version) ==
    FirstWithSolution(
        SortVersionsDescending({r \in mp : r.scenario = info.scenario}),
        1, minimum_version - 1)

latest_reporting_from_platform(info, mp, minimum_version) ==
    FirstWithSolution(
        SortVersionsDescending({r \in mp : r.scenario = info.scenario}),
        1, minimum_version)

\* Mutant of Pick: a tie goes to the platform.
Pick_Strict(f, p) ==
    IF f.version = NotFound /\ p.version = NotFound THEN "RuntimeError"
    ELSE IF f.version > p.version THEN "file"
    ELSE "platform"

\* One target of multi, given what the two functions returned.
Pick(f, p) ==
    IF f.version = NotFound /\ p.version = NotFound THEN "RuntimeError"
    ELSE IF f.version >= p.version THEN "file"
    ELSE "platform"

\* The loop of multi over targets, lines 481-499: [raised, dfs, picks].
RECURSIVE MultiLoop(_, _, _, _, _)
MultiStep(targets, i, acc, f, p, base_dir, mp) ==
    IF Pick(f, p) = "RuntimeError"
    THEN [acc EXCEPT !.raised = TRUE, !.at = i]
    ELSE MultiLoop(targets, i + 1,
                   [acc EXCEPT
                      !.dfs = Append(@, IF Pick(f, p) = "file" THEN f.df
                                        ELSE p.df),
                      !.picks = Append(@, [source |-> Pick(f, p),
                                           file |-> f.version,
                                           platform |-> p.version])],
                   base_dir, mp)

MultiLoop(targets, i, acc, base_dir, mp) ==
    IF i > Len(targets) THEN acc
    ELSE MultiStep(targets, i, acc,
                   latest_reporting_from_file(targets[i], base_dir),
                   latest_reporting_from_platform(targets[i], mp,
                                                  DefaultMinimumVersion),
                   base_dir, mp)

multi(targets, base_dir, mp) ==
    MultiLoop(targets, 1,
              [raised |-> FALSE, at |-> 0, dfs |-> <<>>, picks |-> <<>>],
              base_dir, mp)

----------------------------------------------------------------------------
(* Calls of the report functions on one report directory and one platform *)

\* The directory of each version of scenario "s": missing, without or with
\* transport.csv.
FileSystems ==
    {{Dir("s", v, st[v] = "csv") : v \in {w \in Versions : st[w] # "none"}} :
        st \in [Versions -> {"none", "dir", "csv"}]}

Row(scenario, version, locked, solved) ==
    [scenario |-> scenario, version |-> version, is_locked |-> locked,
     has_solution |-> solved]

\* The row of each version of scenario "s": missing, or locked or not, with
\* or without a solution.
Platforms ==
    {{Row("s", v, st[v].locked, st[v].solved) :
          v \in {w \in Versions : st[w].present}} :
        st \in [Versions ->
                  {[present |-> FALSE, locked |-> FALSE, solved |-> FALSE]}
                  \cup [present : {TRUE}, locked : BOOLEAN, solved : BOOLEAN]]}

\* Targets: scenario "s" without or with a version, and a scenario with no
\* output anywhere.
TargetInfos ==
    {Info("s", FALSE, NotFound), Info("other", FALSE, NotFound)}
    \cup {Info("s", TRUE, v) : v \in Versions}

MultiTargets == {Info("s", FALSE, NotFound), Info("other", FALSE, NotFound)}

TargetLists == UNION {[1..n -> MultiTargets] : n \in 1..MaxTargets}

ReportInit ==
    /\ fs \in FileSystems
    /\ platform \in Platforms
    /\ out = [op |-> "none"]
    /\ DemandIdle /\ DummyIdle /\ FilesIdle
    /\ UtilsIdle /\ MaterialIdle

CallFromFile ==
    /\ \E info \in TargetInfos :
          out' = [op |-> "file", info |-> info,
                  res |-> latest_reporting_from_file(info, fs)]
    /\ UNCHANGED <<fs, platform, demandVars, dummyVars, filesVars, utilsVars,
                 materialVars>>

CallFromPlatform ==
    /\ \E info \in TargetInfos, minimum \in Versions \cup {DefaultMinimumVersion} :
          out' = [op |-> "platform", info |-> info, minimum |-> minimum,
                  res |-> latest_reporting_from_platform(info, platform,
                                                         minimum)]
    /\ UNCHANGED <<fs, platform, demandVars, dummyVars, filesVars, utilsVars,
                 materialVars>>

CallMulti ==
    /\ \E targets \in TargetLists :
          out' = [op |-> "multi", targets |-> targets,
                  res |-> multi(targets, fs, platform)]
    /\ UNCHANGED <<fs, platform, demandVars, dummyVars, filesVars, utilsVars,
                 materialVars>>

ReportNext == CallFromFile \/ CallFromPlatform \/ CallMulti

SpecReport == ReportInit /\ [][ReportNext]_vars

----------------------------------------------------------------------------
(* Claims about the report functions *)

Max(S) == CHOOSE x \in S : \A y \in S : y <= x

Min(S) == CHOOSE x \in S : \A y \in S : x <= y

\* The directories that match info and hold transport.csv.
WithFile(info) == {d \in Glob(fs, info) : d.csv}

\* The rows of info's scenario above minimum, unlocked, with a solution.
Eligible(info, minimum) ==
    {r \in platform : /\ r.scenario = info.scenario
                      /\ r.version > minimum
                      /\ ~r.is_locked
                      /\ r.has_solution}

\* C2 (as claimed): latest_reporting_from_file returns, among the matching
\* directories that hold transport.csv, the one with the numerically greatest
\* version number, with that number.
C2_FileNumericallyLatest ==
    (out.op = "file" /\ WithFile(out.info) # {}) =>
        /\ out.res.version = Max({ParseInt(d.ver) : d \in WithFile(out.info)})
        /\ out.res.obj.ver = Digits(out.res.version)
        /\ out.res.nones = {}

\* C3: latest_reporting_from_platform returns the greatest version among
\* those > minimum_version, unlocked and with a solution; it returns a
\* version only if there is one, never one <= minimum_version, never a
\* locked one.
C3_PlatformLatestEligible ==
    out.op = "platform" =>
        /\ Eligible(out.info, out.minimum) # {} =>
              /\ out.res.nones = {}
              /\ out.res.version =
                    Max({r.version : r \in Eligible(out.info, out.minimum)})
              /\ out.res.obj = [scenario |-> out.info.scenario,
                                ver |-> Digits(out.res.version)]
              /\ out.res.df.source = "platform"
              /\ out.res.df.version = out.res.version
        /\ out.res.nones = {} =>
              /\ out.res.version > out.minimum
              /\ \E r \in platform :
                    /\ r.scenario = out.info.scenario
                    /\ r.version = out.res.version
                    /\ ~r.is_locked
                    /\ r.has_solution

\* C3 witness: version 10 is locked (and has a solution), version 9 is
\* returned.
C3_Witness ==
    /\ out.op = "platform"
    /\ out.minimum = DefaultMinimumVersion
    /\ Row("s", 10, TRUE, TRUE) \in platform
    /\ out.res.version = 9
    /\ out.res.nones = {}

NoDataCase ==
    \/ out.op = "file" /\ WithFile(out.info) = {}
    \/ out.op = "platform" /\ Eligible(out.info, out.minimum) = {}

NoData(info) ==
    WithFile(info) = {} /\ Eligible(info, DefaultMinimumVersion) = {}

\* C5: in multi, each target uses the source with the greater version, the
\* file on a tie; RuntimeError is raised exactly when some target has data in
\* neither source, at the first such target, and nothing is collected from
\* then on.
C5_MultiPicksGreater ==
    out.op = "multi" =>
        LET r == out.res
            bad == {i \in 1..Len(out.targets) : NoData(out.targets[i])}
        IN /\ r.raised <=> bad # {}
           /\ Len(r.dfs) = IF bad = {} THEN Len(out.targets) ELSE Min(bad) - 1
           /\ Len(r.picks) = Len(r.dfs)
           /\ \A i \in 1..Len(r.dfs) :
                 LET f == r.picks[i].file
                     p == r.picks[i].platform
                 IN /\ f = latest_reporting_from_file(out.targets[i], fs).version
                    /\ p = IF Eligible(out.targets[i], DefaultMinimumVersion) = {}
                           THEN -1
                           ELSE Max({q.version : q \in
                                     Eligible(out.targets[i],
                                              DefaultMinimumVersion)})
                    /\ r.dfs[i].version = Max({f, p})
                    /\ r.dfs[i].source = r.picks[i].source
                    /\ r.dfs[i].scenario = out.targets[i].scenario
                    /\ (r.picks[i].source = "file") <=> (f >= p)
                    /\ (r.picks[i].source = "platform") <=> (f < p)

\* C5 witness: the first target has version 9 in the file and on the
\* platform, and the file is used; the second target has no data, and the
\* error is raised with one frame collected.
C5_Witness ==
    /\ out.op = "multi"
    /\ Len(out.targets) = 2
    /\ out.res.raised
    /\ Len(out.res.picks) = 1
    /\ out.res.picks[1] = [source |-> "file", file |-> 9, platform |-> 9]

----------------------------------------------------------------------------
(* demand.dummy *)

\* Greatest number of commodities handed to dummy.
MaxCommodities == 2

\* Strings that are searched are sequences of characters.
Freight == <<"f", "r", "e", "i", "g", "h", "t">>

\* sub in s
Contains(s, sub) ==
    \E i \in 0..(Len(s) - Len(sub)) : SubSeq(s, i + 1, i + Len(sub)) = sub

\* Mutant of IsTrue: "!= True" for "is not True", which the int 1 passes.
IsTrue_Equal(flag) == flag.type \in {"bool", "int"} /\ flag.val = 1

\* flag is True: the object True itself, not a value equal to it.
IsTrue(flag) == flag.type = "bool" /\ flag.val = 1

\* make_df("demand", commodity=..., unit=..., **common): a row per year.
MakeDf(commodity, y) ==
    [i \in 1..Len(y) |->
        [commodity |-> commodity.id,
         unit |-> IF Contains(commodity.id, Freight) THEN "t km" ELSE "km",
         level |-> "useful",
         time |-> "year",
         value |-> 10 + (i - 1),
         year |-> y[i],
         node |-> "NaN"]]

\* commodity.get_annotation(id="demand") succeeds: a Code with the annotation
\* (KeyError without it, AttributeError for a str).
IsDemand(commodity) == commodity.kind = "Code" /\ commodity.demand

\* The loop over commodities: dfs, the list of frames.
RECURSIVE DemandFrames(_, _, _)
DemandFrames(commodities, i, y) ==
    IF i > Len(commodities) THEN <<>>
    ELSE IF ~IsDemand(commodities[i]) THEN DemandFrames(commodities, i + 1, y)
    ELSE <<MakeDf(commodities[i], y)>> \o DemandFrames(commodities, i + 1, y)

\* pd.concat(dfs) for a list that is not empty.
RECURSIVE Concat(_)
Concat(dfs) == IF dfs = <<>> THEN <<>> ELSE Head(dfs) \o Concat(Tail(dfs))

\* broadcast(df, node=nodes): every row once for every node.
RECURSIVE Broadcast(_, _)
Broadcast(df, nodes) ==
    IF nodes = <<>> THEN <<>>
    ELSE [i \in 1..Len(df) |-> [df[i] EXCEPT !.node = Head(nodes)]]
         \o Broadcast(df, Tail(nodes))

\* Line 72: pd.concat raises ValueError for an empty list.
DummyData(dfs, nodes) ==
    IF dfs = <<>>
    THEN [raised |-> "ValueError", keys |-> {}, demand |-> <<>>,
          reads |-> {"config", "y", "commodities"}]
    ELSE [raised |-> "none", keys |-> {"demand"},
          demand |-> Broadcast(Concat(dfs), nodes),
          reads |-> {"config", "y", "commodities", "nodes"}]

\* dummy(commodities, nodes, y, config): what is raised, the keys of the
\* dict, the rows of "demand", and the arguments read.
dummy(commodities, nodes, y, config) ==
    IF ~IsTrue(config.demand_dummy)
    THEN [raised |-> "none", keys |-> {}, demand |-> <<>>,
          reads |-> {"config"}]
    ELSE DummyData(DemandFrames(commodities, 1, y), nodes)

\* Values of config["data source"]["demand dummy"]: True, False, 1, 0,
\* "True", None.
Flags ==
    {[type |-> "bool", val |-> 1], [type |-> "bool", val |-> 0],
     [type |-> "int", val |-> 1], [type |-> "int", val |-> 0],
     [type |-> "str", val |-> 1], [type |-> "NoneType", val |-> 0]}

\* Commodity ids: "pax", "freight", "xfreighty", "freigh".
CommodityIds ==
    {<<"p", "a", "x">>, Freight, <<"x">> \o Freight \o <<"y">>,
     SubSeq(Freight, 1, 6)}

\* Code objects with or without the annotation, and plain strings.
Commodities ==
    [id : CommodityIds, kind : {"Code"}, demand : BOOLEAN]
    \cup [id : CommodityIds, kind : {"str"}, demand : {FALSE}]

\* Lists of commodities with distinct ids.
CommodityLists ==
    {l \in UNION {[1..n -> Commodities] : n \in 0..MaxCommodities} :
        \A i, j \in DOMAIN l : i # j => l[i].id # l[j].id}

NodeLists == {<<"R11_AFR">>, <<"R11_AFR", "R11_CPA">>}

YearLists == {<<2020>>, <<2020, 2030>>}

DummyInit ==
    /\ dargs \in [commodities : CommodityLists, nodes : NodeLists,
                  y : YearLists, config : [demand_dummy : Flags]]
    /\ dres = [called |-> FALSE]
    /\ DemandIdle /\ ReportIdle /\ FilesIdle
    /\ UtilsIdle /\ MaterialIdle

CallDummy ==
    /\ ~dres.called
    /\ dres' = [called |-> TRUE,
                res |-> dummy(dargs.commodities, dargs.nodes, dargs.y,
                              dargs.config)]
    /\ UNCHANGED <<dargs, demandVars, reportVars, filesVars, utilsVars,
                 materialVars>>

DummyNext == CallDummy

SpecDummy == DummyInit /\ [][DummyNext]_vars

\* C8: whenever the flag is anything but the boolean True, dummy returns an
\* empty dict and reads neither commodities, nodes nor years.
C8_DummyEmptyWithoutFlag ==
    (dres.called /\ dargs.config.demand_dummy # [type |-> "bool", val |-> 1])
    => /\ dres.res.raised = "none"
       /\ dres.res.keys = {}
       /\ dres.res.reads \cap {"commodities", "nodes", "y"} = {}

\* C8 witness: the flag is the int 1, a demand commodity is given, and the
\* call has returned.
C8_Witness ==
    /\ dres.called
    /\ dargs.config.demand_dummy = [type |-> "int", val |-> 1]
    /\ \E i \in DOMAIN dargs.commodities : IsDemand(dargs.commodities[i])
    /\ dres.res.keys = {}

\* The number of rows of df for commodity id, node and year.
Rows(df, id, node, year) ==
    Cardinality({i \in DOMAIN df : /\ df[i].commodity = id
                                   /\ df[i].node = node
                                   /\ df[i].year = year})

\* C9 (as claimed): with the flag True, dummy returns a dict with the single
\* key 'demand' holding exactly one row for every (commodity with a 'demand'
\* annotation, node, year) and no other row; the value for the i-th year
\* (0-based) is 10+i, level 'useful', time 'year', unit 't km' if the id
\* contains 'freight' and 'km' otherwise; for every list of commodities.
C9_DummyRows ==
    (dres.called /\ dargs.config.demand_dummy = [type |-> "bool", val |-> 1])
    => LET df == dres.res.demand
           ids == {dargs.commodities[i].id :
                     i \in {j \in DOMAIN dargs.commodities :
                              IsDemand(dargs.commodities[j])}}
       IN /\ dres.res.raised = "none"
          /\ dres.res.keys = {"demand"}
          /\ Len(df) = Cardinality(ids) * Len(dargs.nodes) * Len(dargs.y)
          /\ \A id \in ids : \A n \in DOMAIN dargs.nodes :
                \A k \in DOMAIN dargs.y :
                   Rows(df, id, dargs.nodes[n], dargs.y[k]) = 1
          /\ \A i \in DOMAIN df :
                /\ df[i].commodity \in ids
                /\ df[i].level = "useful"
                /\ df[i].time = "year"
                /\ \E k \in DOMAIN dargs.y :
                      df[i].year = dargs.y[k] /\ df[i].value = 10 + (k - 1)
                /\ df[i].unit = IF Contains(df[i].commodity, Freight)
                                THEN "t km" ELSE "km"

\* What C9 claims holds whenever some commodity has the annotation.
DummyRowsWithDemand ==
    (\E i \in DOMAIN dargs.commodities : IsDemand(dargs.commodities[i]))
    => C9_DummyRows

----------------------------------------------------------------------------
(* files.py: ExogenousDataFile, FILES *)

\* Greatest number of ExogenousDataFile constructions.
MaxFiles == 2

\* Strings of paths and key names are sequences of characters; the dims of a
\* key are a tuple, in the order given.
FKey(name, dims, tag) == [name |-> name, dims |-> dims, tag |-> tag]

\* Key.__eq__: the name, the set of dims and the tag.
KeyEq(a, b) ==
    a.name = b.name /\ Range(a.dims) = Range(b.dims) /\ a.tag = b.tag

Csv == <<".", "c", "s", "v">>

\* Index of the last "." in s, 0 when there is none (str.rfind, 1-based).
LastDot(s) ==
    IF \E i \in DOMAIN s : s[i] = "."
    THEN CHOOSE i \in DOMAIN s : s[i] = "." /\ \A j \in (i + 1)..Len(s) : s[j] # "."
    ELSE 0

\* Mutant of WithoutSuffix: the name is cut at its first ".".
FirstDot(s) ==
    IF \E i \in DOMAIN s : s[i] = "."
    THEN CHOOSE i \in DOMAIN s : s[i] = "." /\ \A j \in 1..(i - 1) : s[j] # "."
    ELSE 0

WithoutSuffix_AllSuffixes(name) ==
    IF 1 < FirstDot(name) THEN SubSeq(name, 1, FirstDot(name) - 1) ELSE name

\* PurePath.with_suffix("") on a file name: cut the last suffix, which begins
\* at a "." that is neither the first nor the last character.
WithoutSuffix(name) ==
    IF 1 < LastDot(name) /\ LastDot(name) < Len(name)
    THEN SubSeq(name, 1, LastDot(name) - 1)
    ELSE name

\* " ".join(parts)
RECURSIVE JoinSpace(_)
JoinSpace(parts) ==
    IF parts = <<>> THEN <<>>
    ELSE IF Len(parts) = 1 THEN parts[1]
    ELSE parts[1] \o <<" ">> \o JoinSpace(Tail(parts))

\* s.replace("-", " ")
ReplaceDash(s) == [i \in DOMAIN s |-> IF s[i] = "-" THEN " " ELSE s[i]]

\* Lines 39-40: a str becomes a 1-tuple, ".csv" is added to the last part.
FileParts(parts) ==
    SubSeq(parts.items, 1, Len(parts.items) - 1)
    \o <<parts.items[Len(parts.items)] \o Csv>>

\* Line 46: the key name from the path.
NameFromPath(parts) ==
    ReplaceDash(JoinSpace(SubSeq(parts, 1, Len(parts) - 1)
                          \o <<WithoutSuffix(parts[Len(parts)])>>))

NoKey == FKey(<<>>, <<>>, <<>>)

\* Lines 44-52: the key, from the path or as given.
FileKey(parts, key, dims) ==
    IF key = NoKey THEN FKey(NameFromPath(parts), dims, <<"exo">>) ELSE key

\* What __init__ raises: IndexError for an empty tuple of parts,
\* AssertionError when dims are given and differ from the dims of the key.
InitError(parts, key, dims) ==
    IF parts.items = <<>> THEN "IndexError"
    ELSE IF key # NoKey /\ dims # <<>> /\ dims # key.dims
         THEN "AssertionError"
         ELSE "none"

\* Mutant of Register: the instance is always appended.
Register_Always(files, f) == Append(files, f)

\* Lines 55-56: append unless FILES holds an instance with an equal key.
Register(files, f) ==
    IF \E i \in DOMAIN files : KeyEq(files[i].key, f.key) THEN files
    ELSE Append(files, f)

\* The instance made by the n-th construction.
Instance(n, parts, key, dims) ==
    [id |-> n, parts |-> FileParts(parts),
     key |-> FileKey(FileParts(parts), key, dims)]

\* Arguments `parts`: "a-b", "a b", "c", "a.b", ("a", "b"), ().
PartsArgs ==
    {[kind |-> "str", items |-> << <<"a", "-", "b">> >>],
     [kind |-> "str", items |-> << <<"a", " ", "b">> >>],
     [kind |-> "str", items |-> << <<"c">> >>],
     [kind |-> "str", items |-> << <<"a", ".", "b">> >>],
     [kind |-> "tuple", items |-> << <<"a">>, <<"b">> >>],
     [kind |-> "tuple", items |-> <<>>]}

\* Arguments `key`: None, "a b:n-y:exo", "d::ref".
KeyArgs ==
    {NoKey, FKey(<<"a", " ", "b">>, <<"n", "y">>, <<"exo">>),
     FKey(<<"d">>, <<>>, <<"ref">>)}

\* Arguments `dims`: None, ("n", "y"), ("y", "n").
DimsArgs == {<<>>, <<"n", "y">>, <<"y", "n">>}

FilesInit ==
    /\ FILES = <<>>
    /\ made = <<>>
    /\ given = <<>>
    /\ DemandIdle /\ ReportIdle /\ DummyIdle
    /\ UtilsIdle /\ MaterialIdle

\* ExogenousDataFile(parts, key, dims=dims): nothing changes when __init__
\* raises.
Construct ==
    /\ Len(made) < MaxFiles
    /\ \E parts \in PartsArgs, key \in KeyArgs, dims \in DimsArgs :
          /\ InitError(parts, key, dims) = "none"
          /\ \E f \in {Instance(Len(made) + 1, parts, key, dims)} :
                /\ made' = Append(made, f)
                /\ FILES' = Register(FILES, f)
                /\ given' = Append(given, [parts |-> parts, key |-> key,
                                           dims |-> dims])
    /\ UNCHANGED <<demandVars, reportVars, dummyVars, utilsVars, materialVars>>

FilesNext == Construct

SpecFiles == FilesInit /\ [][FilesNext]_vars

C11_KeyFromPath ==
    \A i \in DOMAIN made :
        LET g == given[i].parts.items
            n == Len(g)
        IN  /\ Len(made[i].parts) = n
            /\ (given[i].parts.kind = "str") => n = 1
            /\ \A j \in 1..(n - 1) : made[i].parts[j] = g[j]
            /\ made[i].parts[n] = g[n] \o <<".", "c", "s", "v">>
            /\ (given[i].key = NoKey) =>
                  /\ made[i].key.name =
                        [k \in DOMAIN JoinSpace(g) |->
                            IF JoinSpace(g)[k] = "-" THEN " " ELSE JoinSpace(g)[k]]
                  /\ made[i].key.dims = given[i].dims
                  /\ made[i].key.tag = <<"exo">>

\* C11 witness: a construction without a key from two parts, and one from a
\* name that holds a "." and so has a suffix before ".csv" is appended.
C11_Witness ==
    /\ Len(made) = 2
    /\ given[1].key = NoKey /\ given[2].key = NoKey
    /\ Len(given[1].parts.items) = 2
    /\ given[1].dims = <<"n", "y">>
    /\ given[2].parts.items = << <<"a", ".", "b">> >>
    /\ given[2].dims = <<>>

----------------------------------------------------------------------------
(* utils.py: read_config, consumer_groups, transport_technologies *)

\* Greatest number of calls of the functions of utils.py.
MaxUtilCalls == 2

\* Context keys of the configuration files, in the order of METADATA.
METADATA ==
    <<"transport callback", "transport config", "transport set",
      "transport technology", "transport migrate set">>

\* Data files (the list FILES of utils.py).
DataFiles ==
    <<"ldv_class", "mer_to_ppp", "population-suburb-share", "ma3t/population",
      "ma3t/attitude", "ma3t/driver">>

\* The Context before anything is loaded: cfg is the set of configuration
\* keys, params tells whether context["transport callback"] holds "params",
\* data is the keys of context.data and gen counts the Datasets assigned to
\* context.data.
EmptyContext == [cfg |-> {}, params |-> FALSE, data |-> {}, gen |-> 0]

NoLog == [loads |-> 0, pops |-> 0]

\* Lines 52-53: context.load_config(*parts) for METADATA[i..]; a file that
\* cannot be read raises and leaves what was loaded before it.
RECURSIVE LoadMetadata(_, _, _, _)
LoadMetadata(ctx, log, env, i) ==
    IF i > Len(METADATA) THEN [ctx |-> ctx, log |-> log, err |-> "none"]
    ELSE IF METADATA[i] = env.missing
         THEN [ctx |-> ctx, log |-> log, err |-> "FileNotFoundError"]
         ELSE LoadMetadata(
                [ctx EXCEPT !.cfg = @ \cup {METADATA[i]},
                            !.params = IF METADATA[i] = "transport callback"
                                       THEN env.params ELSE @],
                [log EXCEPT !.loads = @ + 1], env, i + 1)

\* Lines 59-61: context.data[key] = load_data(...) for FILES[i..].
RECURSIVE LoadData(_, _, _)
LoadData(ctx, env, i) ==
    IF i > Len(DataFiles) THEN [ctx |-> ctx, err |-> "none"]
    ELSE IF DataFiles[i] = env.missing
         THEN [ctx |-> ctx, err |-> "FileNotFoundError"]
         ELSE LoadData([ctx EXCEPT !.data = @ \cup {DataFiles[i]}], env, i + 1)

\* Lines 64-65: pop "params" and store each parameter in context.data.
PopParams(ctx, log) ==
    IF ~ctx.params THEN [ctx |-> ctx, log |-> log, err |-> "KeyError"]
    ELSE [ctx |-> [ctx EXCEPT !.params = FALSE, !.data = @ \cup {"param"}],
          log |-> [log EXCEPT !.pops = @ + 1], err |-> "none"]

\* Lines 52-67, when the configuration is not yet loaded.
LoadAll(ctx, log, env) ==
    LET m == LoadMetadata(ctx, log, env, 1)
        c1 == [m.ctx EXCEPT !.data = {}, !.gen = @ + 1]
        d == LoadData(c1, env, 1)
    IN IF m.err # "none" THEN m
       ELSE IF d.err # "none" THEN [ctx |-> d.ctx, log |-> m.log, err |-> d.err]
       ELSE PopParams(d.ctx, m.log)

\* Mutant of AlreadyLoaded: the configuration is never taken as loaded.
AlreadyLoaded_Never(ctx) == FALSE

\* Lines 43-50: context["transport migrate set"] exists.
AlreadyLoaded(ctx) == "transport migrate set" \in ctx.cfg

read_config(ctx, log, env) ==
    IF AlreadyLoaded(ctx) THEN [ctx |-> ctx, log |-> log, err |-> "none"]
    ELSE LoadAll(ctx, log, env)

\* Strings of codes are sequences of characters, ordered as str is.
Alphabet == <<"A", "E", "F", "L", "M", "R", "S", "U", "_">>

Ord(ch) == CHOOSE i \in DOMAIN Alphabet : Alphabet[i] = ch

CodeLess(a, b) ==
    \E i \in 1..Len(b) :
        /\ \A j \in 1..(i - 1) : j <= Len(a) /\ a[j] = b[j]
        /\ (i > Len(a) \/ Ord(a[i]) < Ord(b[i]))

\* Mutant of Sorted: the list as it is.
Sorted_Not(s) == s

\* sorted(list of str)
RECURSIVE Sorted(_)
Sorted(s) ==
    IF s = <<>> THEN <<>>
    ELSE LET rest == Sorted(SubSeq(s, 1, Len(s) - 1))
             x == s[Len(s)]
             n == Cardinality({i \in DOMAIN rest : ~CodeLess(x, rest[i])})
         IN SubSeq(rest, 1, n) \o <<x>> \o SubSeq(rest, n + 1, Len(rest))

consumer_group_dims == <<"area_type", "attitude", "driver_type">>

\* Line 87: product(*codes), the last dimension varying fastest.
Product(codes) ==
    LET la == Len(codes[1])
        lb == Len(codes[2])
        lc == Len(codes[3])
    IN [k \in 1..(la * lb * lc) |->
          <<codes[1][((k - 1) \div (lb * lc)) + 1],
            codes[2][(((k - 1) \div lc) % lb) + 1],
            codes[3][((k - 1) % lc) + 1]>>]

\* str.lower() of the names of the configuration.
Lower(name) ==
    CASE name = "Urban" -> "urban"
      [] name = "Suburban" -> "suburban"
      [] name = "Early Adopter" -> "early adopter"
      [] name = "Late Majority" -> "late majority"
      [] name = "Moderate" -> "moderate"
      [] name = "Frequent" -> "frequent"
      [] OTHER -> name

\* context["transport set"][d]["add"]: code -> name, in the order of the file.
NameOf(sets, d, code) ==
    (CHOOSE e \in Range(sets[d]) : e.code = code).name

\* Lines 73-96: code, index and description of every group.
Groups(sets) ==
    LET codes == [d \in 1..3 |->
                    [i \in DOMAIN sets[d] |-> sets[d][i].code]]
        index == Product(codes)
    IN [code |-> [k \in DOMAIN index |->
                    index[k][1] \o index[k][2] \o index[k][3]],
        index |-> index,
        description |-> [k \in DOMAIN index |->
                    <<Lower(NameOf(sets, 1, index[k][1])), ", ",
                      Lower(NameOf(sets, 2, index[k][2])), ", ",
                      Lower(NameOf(sets, 3, index[k][3]))>>]]

\* Lines 98-111: the value returned for rtype.
GroupsAs(g, rtype) ==
    IF rtype = "description"
    THEN [err |-> "none",
          val |-> [k \in DOMAIN g.code |-> <<g.code[k], g.description[k]>>]]
    ELSE IF rtype = "indexers"
    THEN [err |-> "none",
          val |-> [d \in (IF g.index = <<>> THEN {} ELSE 1..3) \cup {4} |->
                     IF d = 4 THEN g.code
                     ELSE [k \in DOMAIN g.index |-> g.index[k][d]]]]
    ELSE IF rtype = "code"
    THEN [err |-> "none", val |-> Sorted(g.code)]
    ELSE [err |-> "ValueError", val |-> <<>>]

\* consumer_groups(rtype), under lru_cache: st is the context, the log and
\* the cache; a call that raises is not cached.
consumer_groups(st, env, rtype) ==
    IF rtype \in DOMAIN st.cache
    THEN [st |-> st, err |-> "none", val |-> st.cache[rtype]]
    ELSE LET r == read_config(st.ctx, st.log, env)
             v == GroupsAs(Groups(env.sets), rtype)
             st1 == [st EXCEPT !.ctx = r.ctx, !.log = r.log]
         IN IF r.err # "none" THEN [st |-> st1, err |-> r.err, val |-> <<>>]
            ELSE IF v.err # "none" THEN [st |-> st1, err |-> v.err, val |-> <<>>]
            ELSE [st |-> [st1 EXCEPT !.cache =
                            [t \in DOMAIN @ \cup {rtype} |->
                                IF t = rtype THEN v.val ELSE @[t]]],
                  err |-> "none", val |-> v.val]

\* Lines 122-124: group_of, a later group replacing an earlier one.
GroupOf(groups, tech) ==
    LET with == {i \in DOMAIN groups : tech \in Range(groups[i].tech)}
    IN IF with = {} THEN 0
       ELSE CHOOSE i \in with : \A j \in with : j <= i

\* Lines 131-133: group.get("by_consumer_group", False) of the group of tech.
ByConsumerGroup(groups, tech) ==
    /\ GroupOf(groups, tech) # 0
    /\ groups[GroupOf(groups, tech)].by_consumer_group = "True"

\* Lines 135-142: the items of one technology with consumer groups.
RECURSIVE WithDescription(_, _)
WithDescription(info, pairs) ==
    IF pairs = <<>> THEN <<>>
    ELSE <<[id |-> info.id \o <<"_">> \o pairs[1][1],
            name |-> <<info.id, "description", " (">> \o pairs[1][2] \o <<")">>]>>
         \o WithDescription(info, Tail(pairs))

ByGroup(info, groups, with_desc) ==
    IF groups.err # "none" THEN [items |-> <<>>, err |-> groups.err]
    ELSE IF with_desc
    THEN IF groups.val # <<>> /\ ~info.description
         THEN [items |-> <<>>, err |-> "KeyError"]
         ELSE [items |-> WithDescription(info, groups.val), err |-> "none"]
    ELSE [items |-> [k \in DOMAIN groups.val |->
                       [id |-> info.id \o <<"_">> \o groups.val[k], name |-> <<>>]],
          err |-> "none"]

\* Line 144: the item of a technology without consumer groups.
Single(info, with_desc) ==
    [id |-> info.id,
     name |-> IF with_desc /\ info.description
              THEN <<info.id, "description">> ELSE <<>>]

\* Lines 126-144: the loop over config["technology"], from entry i; the
\* items yielded so far are kept when an entry raises.
RECURSIVE TechLoop(_, _, _, _, _, _, _)
TechLoop(st, env, by_cg, filter, with_desc, i, items) ==
    IF i > Len(env.technology)
    THEN [st |-> st, items |-> items, err |-> "none"]
    ELSE
      LET info == env.technology[i]
      IN IF filter # <<>> /\ info.id \notin Range(filter)
         THEN TechLoop(st, env, by_cg, filter, with_desc, i + 1, items)
         ELSE IF by_cg /\ ByConsumerGroup(env.groups, info.id)
         THEN LET groups == consumer_groups(
                          st, env, IF with_desc THEN "description" ELSE "code")
                  r == ByGroup(info, groups, with_desc)
              IN IF r.err # "none"
                 THEN [st |-> groups.st, items |-> items, err |-> r.err]
                 ELSE TechLoop(groups.st, env, by_cg, filter, with_desc, i + 1,
                               items \o r.items)
         ELSE TechLoop(st, env, by_cg, filter, with_desc, i + 1,
                       Append(items, Single(info, with_desc)))

\* list(transport_technologies(by_cg, filter, with_desc))
transport_technologies(st, env, by_cg, filter, with_desc) ==
    IF "transport technology" \notin st.ctx.cfg
    THEN [st |-> st, items |-> <<>>, err |-> "KeyError"]
    ELSE TechLoop(st, env, by_cg, filter, with_desc, 1, <<>>)

----------------------------------------------------------------------------
(* Calls of the functions of utils.py *)

Entry(code, name) == [code |-> code, name |-> name]

\* context["transport set"]: the codes of the three dimensions.
SetConfigs ==
    {<< <<Entry(<<"U", "R">>, "Urban"), Entry(<<"S", "U">>, "Suburban")>>,
        <<Entry(<<"E", "A">>, "Early Adopter"),
          Entry(<<"L", "M">>, "Late Majority")>>,
        <<Entry(<<"M">>, "Moderate"), Entry(<<"F">>, "Frequent")>> >>,
     << <<Entry(<<"U", "R">>, "Urban")>>,
        <<Entry(<<"L", "M">>, "Late Majority"),
          Entry(<<"E", "A">>, "Early Adopter")>>,
        <<Entry(<<"F">>, "Frequent")>> >>,
     << <<Entry(<<"U", "R">>, "Urban")>>,
        <<>>,
        <<Entry(<<"F">>, "Frequent")>> >>}

ELC == <<"E", "L", "C">>
ICE == <<"I", "C", "E">>
BUS == <<"B", "U", "S">>
RAIL == <<"R", "A", "I", "L">>

Tech(id, description) == [id |-> id, description |-> description]

TechGroup(name, by_consumer_group, tech) ==
    [name |-> name, by_consumer_group |-> by_consumer_group, tech |-> tech]

\* context["transport technology"]: the technologies, with or without a
\* description, and the technology groups, each technology in one group at
\* most.
TechConfigs ==
    {[technology |-> <<Tech(ELC, TRUE), Tech(ICE, TRUE), Tech(BUS, d)>>,
      groups |-> <<TechGroup("LDV", "True", <<ELC, ICE>>),
                   TechGroup("BUS", b, <<BUS>>)>>] :
        d \in BOOLEAN, b \in {"False", "absent"}}
    \cup
    {[technology |-> <<Tech(BUS, TRUE), Tech(ELC, TRUE), Tech(ICE, FALSE)>>,
      groups |-> <<TechGroup("F RAIL", "absent", <<RAIL>>),
                   TechGroup("LDV", "True", <<ICE>>)>>],
     [technology |-> <<Tech(ELC, TRUE), Tech(BUS, FALSE)>>,
      groups |-> <<TechGroup("LDV", "False", <<ELC>>)>>]}

\* The files: the one that cannot be read, if any, and whether callback.yaml
\* has an entry "params".
Env(missing, params, sets, tech) ==
    [missing |-> missing, params |-> params, sets |-> sets,
     technology |-> tech.technology, groups |-> tech.groups]

NoUtilCall ==
    [op |-> "none", pre |-> EmptyContext, preLog |-> NoLog, err |-> "none",
     args |-> <<>>, val |-> <<>>]

UtilsStart ==
    /\ uctx = EmptyContext
    /\ ulog = NoLog
    /\ ucache = <<>>
    /\ ulast = NoUtilCall
    /\ ufirst = <<>>
    /\ ucalls = 0
    /\ DemandIdle /\ ReportIdle /\ DummyIdle /\ FilesIdle /\ MaterialIdle

\* Files that can all be read, for each configuration of sets and
\* technologies.
UtilsInit ==
    /\ uenv \in {Env("none", TRUE, s, t) : s \in SetConfigs, t \in TechConfigs}
    /\ UtilsStart

\* Files of which one cannot be read or in which "params" is not given.
ConfigInit ==
    /\ uenv \in {Env(m, p, s, t) :
                   m \in {"none", "transport set", "transport migrate set",
                          "ma3t/attitude"},
                   p \in BOOLEAN,
                   s \in {x \in SetConfigs : Len(x[1]) = 1 /\ Len(x[2]) = 2},
                   t \in {x \in TechConfigs : Len(x.technology) = 2}}
    /\ UtilsStart

UtilCalled(op, args, err, val) ==
    [op |-> op, pre |-> uctx, preLog |-> ulog, err |-> err, args |-> args,
     val |-> val]

\* read_config(); ufirst keeps the context after the first call that returned.
CallReadConfig ==
    /\ ucalls < MaxUtilCalls
    /\ \E r \in {read_config(uctx, ulog, uenv)} :
          /\ uctx' = r.ctx
          /\ ulog' = r.log
          /\ ulast' = UtilCalled("read_config", <<>>, r.err, <<>>)
          /\ ufirst' = IF ufirst = <<>> /\ r.err = "none" THEN <<r.ctx>>
                       ELSE ufirst
    /\ ucalls' = ucalls + 1
    /\ UNCHANGED <<uenv, ucache, demandVars, reportVars, dummyVars, filesVars,
                 materialVars>>

RTypes == {"code", "description", "indexers", "index"}

CallConsumerGroups ==
    /\ ucalls < MaxUtilCalls
    /\ \E rtype \in RTypes :
          \E r \in {consumer_groups(
                       [ctx |-> uctx, log |-> ulog, cache |-> ucache],
                       uenv, rtype)} :
             /\ uctx' = r.st.ctx
             /\ ulog' = r.st.log
             /\ ucache' = r.st.cache
             /\ ulast' = UtilCalled("consumer_groups", <<rtype>>, r.err, r.val)
    /\ ucalls' = ucalls + 1
    /\ UNCHANGED <<uenv, ufirst, demandVars, reportVars, dummyVars, filesVars,
                 materialVars>>

Filters == {<<>>, <<ICE>>, <<BUS, ELC>>, <<RAIL>>}

CallTransportTechnologies ==
    /\ ucalls < MaxUtilCalls
    /\ \E by_cg \in BOOLEAN, filter \in Filters, with_desc \in BOOLEAN :
          \E r \in {transport_technologies(
                       [ctx |-> uctx, log |-> ulog, cache |-> ucache],
                       uenv, by_cg, filter, with_desc)} :
             /\ uctx' = r.st.ctx
             /\ ulog' = r.st.log
             /\ ucache' = r.st.cache
             /\ ulast' = UtilCalled("transport_technologies",
                                    <<by_cg, filter, with_desc>>, r.err, r.items)
    /\ ucalls' = ucalls + 1
    /\ UNCHANGED <<uenv, ufirst, demandVars, reportVars, dummyVars, filesVars,
                 materialVars>>

UtilsNext == CallReadConfig \/ CallConsumerGroups \/ CallTransportTechnologies

SpecUtils == UtilsInit /\ [][UtilsNext]_vars

SpecConfig == ConfigInit /\ [][UtilsNext]_vars

----------------------------------------------------------------------------
(* Properties of demand.add_exogenous_data *)

\* C12: add_exogenous_data supports exactly R11, R12 and R14. For any other
\* context.regions it fails before adding a key and the Computer is as it
\* was. For a supported one it succeeds, 'MERtoPPP::raw' loads the file,
\* 'MERtoPPP:n-y:rename' renames it, 'MERtoPPP:n-y:<regions>' passes the
\* renamed data through for R11 and R12 and adapts it with adapt_R11_R14 for
\* R14, 'MERtoPPP:n-y' interpolates the region-tagged key on info.Y, and
\* 'GDP:n-y' and 'PRICE_COMMODITY:n-c-y' are in the graph.
C12_ExogenousData ==
    last.op = "add_exogenous_data" =>
        IF context.regions \notin {"R11", "R12", "R14"}
        THEN last.err # "none" /\ rep = last.pre
        ELSE
          LET raw == K("MERtoPPP", {}, <<"raw">>)
              rename == K("MERtoPPP", {"n", "y"}, <<"rename">>)
              tagged == K("MERtoPPP", {"n", "y"}, <<context.regions>>)
              full == K("MERtoPPP", {"n", "y"}, <<>>)
              g == rep.graph
          IN  /\ last.err = "none"
              /\ {raw, rename, tagged, full} \subseteq DOMAIN g
              /\ g[raw].op = "load_file" /\ g[raw].args = <<>>
              /\ g[rename].op = "rename" /\ g[rename].args = <<raw>>
              /\ g[tagged].args = <<rename>>
              /\ g[tagged].op = (IF context.regions = "R14"
                                 THEN "adapt_R11_R14" ELSE "alias")
              /\ g[full].op = "interpolate" /\ g[full].args = <<tagged>>
              /\ \E info \in Infos : g[full].lit = <<"info", info.id, "Y">>
              /\ K("GDP", {"n", "y"}, <<>>) \in DOMAIN g
              /\ K("PRICE_COMMODITY", {"n", "c", "y"}, <<>>) \in DOMAIN g

\* C12 witness: a call for R12 on a Reporter from a solved scenario, which
\* held 'MERtoPPP:n-y' before the call.
C12_Witness ==
    /\ last.op = "add_exogenous_data"
    /\ context.regions = "R12"
    /\ last.err = "none"
    /\ K("MERtoPPP", {"n", "y"}, <<>>) \in DOMAIN last.pre.graph
    /\ last.pre.graph[K("MERtoPPP", {"n", "y"}, <<>>)].op = "scenario"

\* A call for a region that is not supported is made.
UnsupportedRegionCalled ==
    /\ last.op = "add_exogenous_data"
    /\ context.regions = "ISR"
    /\ last.err = "NotImplementedError"

----------------------------------------------------------------------------
(* Properties of utils.transport_technologies *)

\* The codes of the consumer groups of the configuration.
GroupCodes ==
    {a.code \o b.code \o c.code :
        a \in Range(uenv.sets[1]), b \in Range(uenv.sets[2]),
        c \in Range(uenv.sets[3])}

\* Number of items yielded with the given id.
Yielded(id) == Cardinality({k \in DOMAIN ulast.val : ulast.val[k].id = id})

\* The technology is in a technology group with by_consumer_group = True.
InGroupByConsumerGroup(tech) ==
    \E i \in DOMAIN uenv.groups :
        /\ tech \in Range(uenv.groups[i].tech)
        /\ uenv.groups[i].by_consumer_group = "True"

\* What the last call, of transport_technologies on a loaded configuration,
\* is said to yield.
YieldsAsStated ==
    LET by_cg == ulast.args[1]
        filter == ulast.args[2]
        techs == {uenv.technology[i].id : i \in DOMAIN uenv.technology}
        named == {t \in techs : filter = <<>> \/ t \in Range(filter)}
        grouped == {t \in named : by_cg /\ InGroupByConsumerGroup(t)}
    IN  /\ ulast.err = "none"
        /\ \A t \in grouped :
              /\ Yielded(t) = 0
              /\ \A code \in GroupCodes : Yielded(t \o <<"_">> \o code) = 1
        /\ \A t \in named \ grouped :
              /\ Yielded(t) = 1
              /\ \A code \in GroupCodes : Yielded(t \o <<"_">> \o code) = 0
        /\ Len(ulast.val) =
              Cardinality(grouped) * Cardinality(GroupCodes)
              + Cardinality(named \ grouped)

\* C13: on a loaded configuration transport_technologies yields every
\* technology of a group with by_consumer_group = True once for each consumer
\* group, as '<tech>_<group code>', and every other technology once under its
\* own name; with a non-empty filter only the technologies named in it; with
\* by_cg = False every technology once.
C13_TransportTechnologies ==
    (ulast.op = "transport_technologies" /\ AlreadyLoaded(ulast.pre))
        => YieldsAsStated

\* The same holds for the calls in which no technology with consumer groups
\* lacks a description, or with_desc is False.
YieldsAsStatedWithDescriptions ==
    (/\ ulast.op = "transport_technologies"
     /\ AlreadyLoaded(ulast.pre)
     /\ (ulast.args[3] =>
           \A i \in DOMAIN uenv.technology :
               InGroupByConsumerGroup(uenv.technology[i].id)
                   => uenv.technology[i].description))
        => YieldsAsStated

\* A call with by_cg = True and no filter yields items for consumer groups
\* and items for technologies without them.
GroupedAndSingleYielded ==
    /\ ulast.op = "transport_technologies"
    /\ AlreadyLoaded(ulast.pre)
    /\ ulast.args[1] /\ ulast.args[2] = <<>>
    /\ \E k \in DOMAIN ulast.val : ulast.val[k].id = <<"B", "U", "S">>
    /\ \E k \in DOMAIN ulast.val :
          ulast.val[k].id = <<"E", "L", "C", "_", "S", "U", "L", "M", "F">>

----------------------------------------------------------------------------
(* Properties of utils.consumer_groups *)

\* C14: consumer_groups returns one group for every element of area_type x
\* attitude x driver_type: as many codes as the product of the three sizes,
\* each the concatenation of one code of each dimension in that order, every
\* combination among them; rtype "code" gives the codes sorted; an rtype other
\* than "code", "description" and "indexers" raises ValueError.
C14_ConsumerGroups ==
    ulast.op = "consumer_groups" =>
        LET rtype == ulast.args[1]
            size == Len(uenv.sets[1]) * Len(uenv.sets[2]) * Len(uenv.sets[3])
            codes == IF rtype = "code" THEN ulast.val
                     ELSE IF rtype = "description"
                          THEN [k \in DOMAIN ulast.val |-> ulast.val[k][1]]
                          ELSE ulast.val[4]
        IN IF rtype \in {"code", "description", "indexers"}
           THEN /\ ulast.err = "none"
                /\ Len(codes) = size
                /\ \A k \in DOMAIN codes :
                      \E a \in Range(uenv.sets[1]), b \in Range(uenv.sets[2]),
                         c \in Range(uenv.sets[3]) :
                          codes[k] = a.code \o b.code \o c.code
                /\ \A a \in Range(uenv.sets[1]), b \in Range(uenv.sets[2]),
                      c \in Range(uenv.sets[3]) :
                      \E k \in DOMAIN codes : codes[k] = a.code \o b.code \o c.code
                /\ (rtype = "code") =>
                      \A i, j \in DOMAIN codes :
                          i < j => ~CodeLess(codes[j], codes[i])
           ELSE ulast.err = "ValueError"

\* C14 witness: the codes of 2 x 2 x 2 groups, in which the sorted order is
\* not the order of the product.
C14_Witness ==
    /\ ulast.op = "consumer_groups"
    /\ ulast.args = <<"code">>
    /\ Len(ulast.val) = 8
    /\ ulast.val[1] = <<"S", "U", "E", "A", "F">>
    /\ uenv.sets[1][1].code = <<"U", "R">>

----------------------------------------------------------------------------
(* Properties of utils.read_config *)

\* C15: a call of read_config on a context that has "transport migrate set"
\* returns it as it is: no metadata file is loaded, context.data is not
\* replaced and "params" is not popped; so after the first call that returned
\* the context stays what that call left.
C15_ReadConfigOnce ==
    /\ (ulast.op = "read_config" /\ "transport migrate set" \in ulast.pre.cfg)
          => /\ ulast.err = "none"
             /\ uctx = ulast.pre
             /\ ulog.loads = ulast.preLog.loads
             /\ ulog.pops = ulast.preLog.pops
    /\ ufirst # <<>> => uctx = ufirst[1]

\* C15 witness: read_config called again after a call that loaded the five
\* metadata files, the data files and the parameters.
C15_Witness ==
    /\ ulast.op = "read_config"
    /\ "transport migrate set" \in ulast.pre.cfg
    /\ ulast.preLog.loads = 5
    /\ ulast.preLog.pops = 1
    /\ ulast.pre.gen = 1
    /\ "param" \in uctx.data
    /\ ufirst # <<>>

----------------------------------------------------------------------------
(* material/__init__.py: get_spec *)

SPEC_LIST ==
    <<"generic", "common", "steel", "cement", "aluminum", "petro_chemicals">>

\* ScenarioInfo(): set is a defaultdict(list), here a function from the set
\* names used so far to lists.
NewScenarioInfo == <<>>

\* Mutant of Extend: elements already in the list are left out.
Extend_Unique(info, set_name, elems) ==
    [n \in DOMAIN info \cup {set_name} |->
        LET old == IF n \in DOMAIN info THEN info[n] ELSE <<>>
        IN IF n = set_name
           THEN old \o SelectSeq(elems, LAMBDA e : e \notin Range(old))
           ELSE old]

\* info.set[set_name].extend(elems)
Extend(info, set_name, elems) ==
    [n \in DOMAIN info \cup {set_name} |->
        LET old == IF n \in DOMAIN info THEN info[n] ELSE <<>>
        IN IF n = set_name THEN old \o elems ELSE old]

\* config.get(name, [])
GetList(config, name) == IF name \in DOMAIN config THEN config[name] ELSE <<>>

\* Lines 38-47: the sets of one section, from item i.
RECURSIVE SectionLoop(_, _, _)
SectionLoop(spec, items, i) ==
    IF i > Len(items) THEN spec
    ELSE SectionLoop(
           [require |-> Extend(spec.require, items[i].set_name,
                               GetList(items[i].config, "require")),
            add |-> Extend(spec.add, items[i].set_name,
                           GetList(items[i].config, "add")),
            remove |-> Extend(spec.remove, items[i].set_name,
                              GetList(items[i].config, "remove"))],
           items, i + 1)

\* Lines 37-47: the sections of SPEC_LIST, from section i.
RECURSIVE TypeLoop(_, _, _)
TypeLoop(spec, material, i) ==
    IF i > Len(SPEC_LIST) THEN spec
    ELSE TypeLoop(SectionLoop(spec, material[SPEC_LIST[i]], 1), material, i + 1)

get_spec(material) ==
    TypeLoop([require |-> NewScenarioInfo, add |-> NewScenarioInfo,
              remove |-> NewScenarioInfo], material, 1)

\* One set of a section: its name and the lists given for it.
SetItem(set_name, config) == [set_name |-> set_name, config |-> config]

Lists(require, add, remove) ==
    [k \in {"require", "add", "remove"} |->
        IF k = "require" THEN require ELSE IF k = "add" THEN add ELSE remove]

Only(name, list) == [k \in {name} |-> list]

\* Sections of the configuration: sets with all, some or none of the lists,
\* elements that other sections give too.
Sections ==
    {<<>>,
     <<SetItem("commodity", Lists(<<"coal">>, <<"steel", "coal">>, <<>>)),
       SetItem("technology", Only("add", <<"furnace">>))>>,
     <<SetItem("technology", Only("remove", <<"furnace", "kiln">>)),
       SetItem("commodity", Lists(<<"gas", "coal">>, <<"coal">>, <<"steel">>))>>,
     <<SetItem("level", <<>>),
       SetItem("commodity", Only("add", <<"steel", "steel">>))>>,
     <<SetItem("commodity", Only("require", <<"coal">>))>>}

\* context["material"]
Materials ==
    {[t \in Range(SPEC_LIST) |->
        IF t = "generic" THEN a ELSE IF t = "common" THEN b
        ELSE IF t = "steel" THEN c
        ELSE IF t = "cement"
             THEN <<SetItem("commodity", Only("add", <<"cement">>))>>
        ELSE IF t = "aluminum" THEN <<>>
        ELSE <<SetItem("commodity", Lists(<<"gas">>, <<"ethylene">>, <<"coal">>))>>] :
        a \in Sections, b \in Sections, c \in Sections}

MaterialInit ==
    /\ mconfig \in Materials
    /\ mspec = <<>>
    /\ CallbackIdle
    /\ DemandIdle /\ ReportIdle /\ DummyIdle /\ FilesIdle /\ UtilsIdle

CallGetSpec ==
    /\ mspec = <<>>
    /\ mspec' = <<get_spec(mconfig)>>
    /\ UNCHANGED <<mconfig, cb, demandVars, reportVars, dummyVars, filesVars,
                   utilsVars>>

MaterialNext == CallGetSpec

SpecMaterial == MaterialInit /\ [][MaterialNext]_vars

\* What section t gives for list `which` of set `name`.
Contribution(t, which, name) ==
    IF \E i \in DOMAIN mconfig[t] :
          mconfig[t][i].set_name = name /\ which \in DOMAIN mconfig[t][i].config
    THEN mconfig[t][CHOOSE i \in DOMAIN mconfig[t] :
                       mconfig[t][i].set_name = name].config[which]
    ELSE <<>>

RECURSIVE ConcatSections(_, _, _)
ConcatSections(order, which, name) ==
    IF order = <<>> THEN <<>>
    ELSE Contribution(order[1], which, name)
         \o ConcatSections(Tail(order), which, name)

\* C16: get_spec returns a mapping with exactly the keys require, add and
\* remove; for every set name the elements of each are the concatenation, in
\* the order generic, common, steel, cement, aluminum, petro_chemicals, of the
\* lists of that name in the configuration, nothing dropped or deduplicated,
\* a section without the list giving nothing.
C16_GetSpec ==
    mspec # <<>> =>
        /\ DOMAIN mspec[1] = {"require", "add", "remove"}
        /\ \A which \in {"require", "add", "remove"} :
              \A name \in {"commodity", "technology", "level", "node"} :
                  (IF name \in DOMAIN mspec[1][which]
                   THEN mspec[1][which][name] ELSE <<>>)
                  = ConcatSections(
                      <<"generic", "common", "steel", "cement", "aluminum",
                        "petro_chemicals">>, which, name)

\* C16 witness: two sections add "coal" to the commodities, a third gives no
\* list "add" for them, and the result keeps both "coal".
C16_Witness ==
    /\ mspec # <<>>
    /\ Contribution("generic", "add", "commodity") = <<"steel", "coal">>
    /\ Contribution("common", "add", "commodity") = <<"coal">>
    /\ Contribution("steel", "add", "commodity") = <<>>
    /\ mconfig["steel"] # <<>>
    /\ mspec[1].add["commodity"] = <<"steel", "coal", "coal", "cement", "ethylene">>

----------------------------------------------------------------------------
(* report.py: callback and the functions it applies *)

\* Computer.add(key, ..., sums=True): the key and every partial sum of it.
PutSums(g, key, task, sums) ==
    [k \in DOMAIN g \cup {key} \cup sums |->
        IF k \in sums THEN Task("sum", <<key>>, NoLit)
        ELSE IF k = key THEN task ELSE g[k]]

AddSums(c, key, task) ==
    [c EXCEPT !.graph = PutSums(@, key, task, PartialSums(key))]

\* Computer.infer_keys("<name>:*:<tag>"): the key of that name and tag with
\* the full dimensions; the key as given when the Computer has none.
InferFull(c, name, tag) ==
    LET found == {k \in DOMAIN c.graph : k.name = name /\ k.tag = tag}
    IN IF found = {} THEN K(name, {"*"}, tag)
       ELSE CHOOSE k \in found : \A j \in found : j.dims \subseteq k.dims

t_agg == K("t", {}, <<"transport agg">>)
nl_world_agg == K("nl", {}, <<"world agg">>)
t_modes_1 == K("t", {}, <<"transport modes 1">>)
t_all == K("t", {}, <<"transport all">>)
t_LDV == K("t", {}, <<"transport LDV">>)
t_non_ldv == K("t", {}, <<"transport non-ldv">>)

\* Lines 58-60 for one of "emi", "in", "out": KeySeq(key)[0], [1] and
\* ["transport"].
AggregateKey(c, base) ==
    LET k0 == add_tag(base, "0")
        k1 == add_tag(base, "1")
        c1 == Add(c, k0, Task("aggregate", <<base, t_agg>>, <<"keep=False">>))
        c2 == Add(c1, k1, Task("aggregate", <<k0, nl_world_agg>>, <<"keep=False">>))
    IN AddSums(c2, add_tag(base, "transport"),
               Task("select", <<k1, t_modes_1>>, NoLit))

\* Line 53: KeySeq(c.infer_keys(s)).
AggregateOne(c, name) == AggregateKey(c, InferFull(c, name, <<>>))

\* aggregate(c), the quantities of a solved scenario being in c.
aggregate(c) == AggregateOne(AggregateOne(AggregateOne(c, "emi"), "in"), "out")

SELECT ==
    <<"CAP_NEW", "CAP", "fix_cost", "historical_new_capacity", "in", "input",
      "inv_cost", "out", "var_cost">>

\* Lines 118-120 for one name of SELECT.
SelectKey(c, key) ==
    LET c1 == AddSums(c, add_tag(key, "transport all"),
                      Task("select", <<key, t_all>>, NoLit))
        c2 == AddSums(c1, add_tag(key, "ldv"),
                      Task("select", <<key, t_LDV>>, NoLit))
    IN AddSums(c2, add_tag(key, "non-ldv"),
               Task("select", <<key, t_non_ldv>>, NoLit))

\* Line 117: c.infer_keys(f"{name}:*").
SelectOne(c, name) == SelectKey(c, InferFull(c, name, <<>>))

RECURSIVE SelectFrom(_, _)
SelectFrom(c, i) ==
    IF i > Len(SELECT) THEN c ELSE SelectFrom(SelectOne(c, SELECT[i]), i + 1)

select_transport_techs(c) == SelectFrom(c, 1)

\* The entries of reapply_units: the base key ("*" for all dimensions), the
\* operator and the units.
Units(name, dims, tag, op, units) ==
    [name |-> name, dims |-> dims, tag |-> tag, op |-> op, units |-> units]

UNITS ==
    <<Units("CAP", {"nl", "t", "ya"}, "non-ldv", "apply", "v**2 Tm / a"),
      Units("CAP", {"*"}, "ldv", "apply", "Mv"),
      Units("CAP_NEW", {"*"}, "ldv", "apply", "Mv"),
      Units("in", {"*"}, "transport", "apply", "GWa / a"),
      Units("in", {"*"}, "ldv", "apply", "GWa / a"),
      Units("out", {"*"}, "transport", "apply", "Tm / a"),
      Units("out", {"*"}, "ldv", "apply", "Tm / a"),
      Units("emi", {"*"}, "transport", "assign", "kt / a")>>

\* Line 97: c.infer_keys(base).
InferBase(c, u) ==
    IF u.dims = {"*"} THEN InferFull(c, u.name, <<u.tag>>)
    ELSE K(u.name, u.dims, <<u.tag>>)

\* Mutant of ReapplyKey: the key with units is added without its sums.
ReapplyKey_NoSums(c, key, u) ==
    Add(c, add_tag(key, "units"), Task(u.op, <<key>>, <<u.units>>))

\* Line 98 for one entry.
ReapplyKey(c, key, u) ==
    AddSums(c, add_tag(key, "units"), Task(u.op, <<key>>, <<u.units>>))

ReapplyOne(c, u) == ReapplyKey(c, InferBase(c, u), u)

RECURSIVE ReapplyFrom(_, _)
ReapplyFrom(c, i) ==
    IF i > Len(UNITS) THEN c ELSE ReapplyFrom(ReapplyOne(c, UNITS[i]), i + 1)

reapply_units(c) == ReapplyFrom(c, 1)

Iamc(variable, name, dims, tag) ==
    [variable |-> variable, base |-> K(name, dims, tag)]

CONVERT_IAMC ==
    <<Iamc("transport activity", "out", {"nl", "t", "ya", "c"},
           <<"transport", "units">>),
      Iamc("transport stock", "CAP", {"nl", "t", "ya"}, <<"ldv", "units">>),
      Iamc("transport sales", "CAP_NEW", {"nl", "t", "yv"}, <<"ldv", "units">>),
      Iamc("transport fe", "in", {"nl", "t", "ya", "c"},
           <<"transport", "units">>),
      Iamc("transport fe ldv", "in", {"nl", "t", "ya", "c"},
           <<"ldv", "units">>)>>

\* handle_iamc(c, info): the key "<variable>::iamc", converted from the base.
handle_iamc(c, info) ==
    Add(c, K(info.variable, {}, <<"iamc">>),
        Task("as_pyam", <<info.base>>, <<info.variable>>))

RECURSIVE ConvertFrom(_, _)
ConvertFrom(c, i) ==
    IF i > Len(CONVERT_IAMC) THEN c
    ELSE ConvertFrom(handle_iamc(c, CONVERT_IAMC[i]), i + 1)

transport_iamc == K("transport", {}, <<"iamc">>)

\* convert_iamc(c): [c, key].
convert_iamc(c) ==
    LET keys == [i \in DOMAIN CONVERT_IAMC |->
                    K(CONVERT_IAMC[i].variable, {}, <<"iamc">>)]
        c1 == ConvertFrom(c, 1)
        c2 == Add(c1, transport_iamc, Task("concat", keys, NoLit))
    IN add_iamc_store_write(c2, transport_iamc)

\* misc(c). In the third call "div" "demand:n-c-y" is one str, so that no
\* operator is named: the value of 'demand::capita' is the tuple of the two
\* str, which is no task and takes no key as input.
misc(c) ==
    LET c1 == Add(c, K("transport check", {}, <<>>),
                  Task("transport_check",
                       <<scenario_key,
                         K("ACT", {"nl", "t", "yv", "va", "m", "h"}, <<>>)>>,
                       NoLit))
        c2 == Add(c1, K("distance", {"nl"}, <<"non-ldv">>),
                  Task("distance_nonldv", <<ConfigKey>>, NoLit))
    IN Add(c2, K("demand", {}, <<"capita">>),
           Task("tuple", <<>>, <<"divdemand:n-c-y", "population:n-y">>))

transport_plots == K("transport plots", {}, <<>>)
transport_all == K("transport all", {}, <<>>)

\* base.prepare_reporter(rep): [c, key].
base_prepare_reporter(c) ==
    [c |-> Add(c, K("base model data", {}, <<>>),
               Task("list", <<K("demand", {"n", "c", "y"}, <<>>)>>, NoLit)),
     key |-> K("base model data", {}, <<>>)]

\* Lines 327-337.
add_transport_all(c, iamc_key, base_key) ==
    Add(c, transport_all,
        Task("list", <<iamc_key, transport_plots, base_key>>, NoLit))

----------------------------------------------------------------------------
(* One call of report.callback *)

\* The steps of callback after build.get_computer, in the order of the code.
STEPS ==
    <<"aggregate", "select_transport_techs", "reapply_units", "misc",
      "convert_iamc", "base.prepare_reporter", "transport all">>

Quantity(c, name, dims) ==
    AddSums(c, K(name, dims, <<>>), Task("scenario", <<>>, <<"scenario">>))

\* The Reporter of a solved scenario after build.get_computer: the scenario,
\* its quantities, the technology groups, the demand quantities and the plots.
BaseReporter(d_in, d_out, d_emi, d_CAP) ==
    LET present == {scenario_key, t_agg, nl_world_agg, t_modes_1, t_all, t_LDV,
                  t_non_ldv, transport_plots,
                  K("ACT", {"nl", "t", "yv", "va", "m", "h"}, <<>>),
                  K("demand", {"n", "c", "y"}, <<>>),
                  K("population", {"n", "y"}, <<>>)}
        c0 == ScenarioStructure(NewComputer, present)
        c1 == Quantity(Quantity(Quantity(c0, "in", d_in), "out", d_out),
                       "emi", d_emi)
        c2 == Quantity(Quantity(c1, "CAP", d_CAP), "CAP_NEW", {"nl", "t", "yv"})
        c3 == Quantity(Quantity(c2, "fix_cost", {"nl", "t", "yv", "ya"}),
                       "historical_new_capacity", {"nl", "t", "yv"})
        c4 == Quantity(Quantity(c3, "input", {"nl", "t", "yv", "ya", "c"}),
                       "inv_cost", {"nl", "t", "yv"})
    IN Quantity(c4, "var_cost", {"nl", "t", "yv", "ya"})

BaseReporters ==
    {BaseReporter(d_in, d_out, d_emi, d_CAP) :
        d_in \in {{"nl", "t", "ya", "c"}, {"nl", "t", "yv", "ya", "c"}},
        d_out \in {{"nl", "t", "ya", "c"}, {"nl", "t", "ya", "c", "l"}},
        d_emi \in {{"nl", "t", "ya", "e"}, {"nl", "t", "yv", "ya", "e"}},
        d_CAP \in {{"nl", "t", "ya"}, {"nl", "t", "yv", "ya"}}}

CallbackInit ==
    /\ rep \in BaseReporters
    /\ last = NoCall
    /\ calls = 0
    /\ context = [regions |-> "R11", years |-> "B"]
    /\ cb = [pc |-> 1, steps |-> <<>>, base |-> {}, iamc_key |-> ConfigKey,
             base_key |-> ConfigKey]
    /\ ReportIdle /\ DummyIdle /\ FilesIdle /\ UtilsIdle /\ GetSpecIdle

\* What a step did: the keys it defined or replaced and the keys their tasks
\* take as input.
Step(name, before, after) ==
    LET keys == {k \in DOMAIN after.graph :
                    k \notin DOMAIN before.graph
                    \/ after.graph[k] # before.graph[k]}
    IN [name |-> name, keys |-> keys,
        inputs |-> UNION {Range(after.graph[k].args) : k \in keys}]

\* One step of callback: the Reporter after it is c.
Advance(name, c, iamc_key, base_key) ==
    /\ cb.pc <= Len(STEPS)
    /\ STEPS[cb.pc] = name
    /\ rep' = c
    /\ cb' = [pc |-> cb.pc + 1,
              steps |-> Append(cb.steps, Step(name, rep, c)),
              base |-> IF cb.pc = 1 THEN DOMAIN rep.graph ELSE cb.base,
              iamc_key |-> iamc_key, base_key |-> base_key]
    /\ UNCHANGED <<last, calls, context, mconfig, mspec, reportVars,
                   dummyVars, filesVars, utilsVars>>

StepAggregate ==
    \E c \in {aggregate(rep)} :
        Advance("aggregate", c, cb.iamc_key, cb.base_key)

StepSelectTransportTechs ==
    \E c \in {select_transport_techs(rep)} :
        Advance("select_transport_techs", c, cb.iamc_key, cb.base_key)

StepReapplyUnits ==
    \E c \in {reapply_units(rep)} :
        Advance("reapply_units", c, cb.iamc_key, cb.base_key)

StepMisc == \E c \in {misc(rep)} : Advance("misc", c, cb.iamc_key, cb.base_key)

StepConvertIamc ==
    \E r \in {convert_iamc(rep)} :
        Advance("convert_iamc", r.c, r.key, cb.base_key)

StepBasePrepareReporter ==
    \E r \in {base_prepare_reporter(rep)} :
        Advance("base.prepare_reporter", r.c, cb.iamc_key, r.key)

StepTransportAll ==
    \E c \in {add_transport_all(rep, cb.iamc_key, cb.base_key)} :
        Advance("transport all", c, cb.iamc_key, cb.base_key)

CallbackNext ==
    \/ StepAggregate
    \/ StepSelectTransportTechs
    \/ StepReapplyUnits
    \/ StepMisc
    \/ StepConvertIamc
    \/ StepBasePrepareReporter
    \/ StepTransportAll

SpecCallback == CallbackInit /\ [][CallbackNext]_vars

\* The keys defined by the step of the given name, if it was applied.
DefinedBy(name) ==
    UNION {cb.steps[i].keys : i \in {j \in DOMAIN cb.steps : cb.steps[j].name = name}}

Applied(name) == \E i \in DOMAIN cb.steps : cb.steps[i].name = name

====
